---- MODULE Spec2Model ----
(***************************************************************************)
(* A model of the LONIX database schema (tables, triggers, row-level       *)
(* security policies, periodic cleanup) and of the client code that        *)
(* drives it.  A table is a function from the primary keys of its rows to  *)
(* the rows, or, where the only key is a UNIQUE pair, the set of pairs.    *)
(***************************************************************************)
EXTENDS Integers, FiniteSets, Sequences, TLC

\* ------------------------------------------------------------------ bounds
NumIds == 2         \* identities (auth users) that may sign up
NumPosts == 2       \* primary keys available to posts
MaxFollows == 3     \* rows the follows table holds at most in a run
NumVoid == 1        \* primary keys available to ephemeral_content
MaxTicks == 4       \* clock advances in a run
TickHours == 3      \* hours between two observed instants
NumComments == 2    \* primary keys available to comments
MaxInteractions == 3 \* like, save and comment rows held at most in a run
NumSessions == 2    \* identities with a transaction of their own on one target
MaxDirectWrites == 1 \* UPDATEs of single columns sent by clients in a run
NumSweep == 2       \* ephemeral_content rows a cleanup run may find together
NumConvs == 1       \* rows of public.conversations
NumMessages == 1    \* primary keys available to messages
MaxParticipants == 2 \* rows conversation_participants holds at most in a run
MaxChatTicks == 1   \* clock advances while messages are exchanged
NumPacks == 1       \* primary keys available to sticker_packs
NumPurchases == 2   \* primary keys available to user_purchases
MaxCommentLikes == 2 \* rows comment_likes holds at most in a run
MaxGuardRows == 1   \* follow, like, save and comment rows held while callers are mixed
NumTimeline == 1    \* primary keys available to the posts of 001_initial_schema
MaxAudienceRows == 2 \* post and relationship rows held while visibility is read
NumReports == 1     \* primary keys available to reports
MaxRequests == 2    \* statements a page has sent and not yet seen answered
MaxInitCalls == 3   \* calls of initializeServices in a run
NumKeys == 3        \* keys offered to the cache
MaxCapacity == 2    \* capacities the cache is constructed with: 0..MaxCapacity
MaxCacheOps == 5    \* get-hits and sets of the cache in a run
MaxWait == 2        \* waits the wrapper is built with: 1..MaxWait
MaxCalls == 3       \* calls of the debounced wrapper in a run
MaxClock == 4       \* the clock stops here

Ids == 1..NumIds
PostIds == 1..NumPosts
VoidIds == 1..NumVoid
CommentIds == 1..NumComments
Sessions == 1..NumSessions
ConcTarget == NumSessions + 1
SweepIds == 1..NumSweep

VARIABLES
  profiles,           \* public.profiles: id -> row (the derived counters)
  follows,            \* public.follows: set of <<follower_id, following_id>>
  posts,              \* public.posts: id -> row
  post_likes,         \* public.post_likes: set of <<post_id, user_id>>
  post_saves,         \* public.post_saves: set of <<post_id, user_id>>
  comments,           \* public.comments: id -> row
  ephemeral_content,  \* public.ephemeral_content: id -> row
  now,                \* NOW(), in hours
  tx,                 \* open transactions of the concurrent sessions
  direct_writes,      \* UPDATEs of single columns sent by clients so far
  result,             \* outcome of the last statement, as the client sees it
  user_roles,         \* public.user_roles: user_id -> role (UNIQUE(user_id))
  comment_likes,      \* public.comment_likes: set of <<comment_id, user_id>>
  reports,            \* public.reports: id -> row
  conversation_participants, \* <<conversation_id, user_id>> -> row (UNIQUE pair)
  messages,           \* public.messages: id -> row
  sticker_packs,      \* public.sticker_packs: id -> row
  user_purchases,     \* public.user_purchases: id -> row
  checkout,           \* checkout sessions open at the payment collaborator
  relationships,      \* 001_initial_schema relationships: <<follower_id, following_id>> -> status
  timeline,           \* 001_initial_schema posts: id -> [user_id, visibility]
  auth_users,         \* auth.users: set of ids
  user_settings,      \* 001_initial_schema user_settings: set of user_id (UNIQUE)
  create_user,        \* createUser calls in flight: id -> the await they stand at
  page_user,          \* Index.tsx useAuth().user: the signed-in identity, or NULL
  feedType,           \* Index.tsx state feedType
  followingPosts,     \* Index.tsx state: post id -> what the card shows
  trendingPosts,      \* Index.tsx state: post id -> what the card shows
  recentPosts,        \* Index.tsx state: post id -> what the card shows
  like_requests,      \* post_likes statements sent by the page and not yet answered
  serviceContainer,   \* ServiceInitializer.ts: the call whose container is held, or NULL
  init_calls,         \* initializeServices calls waiting for authService.initialize()
  built,              \* AuthService instances constructed so far
  capacity,           \* LRUCache.capacity, NULL before the constructor ran
  cache,              \* LRUCache.cache: key -> value (a Map)
  keys,               \* LRUCache.keys: the recency list
  cache_ops,          \* history: get-hits and sets of the cache so far
  last_used,          \* history: stored key -> the get-hit or set that last used it
  wait,               \* debounce: the wait of the wrapper, NULL before debounce() ran
  timeout,            \* debounce: the timer id the wrapper holds, or NULL
  clock,              \* the time the timers of the page run on
  timers,             \* the timers set by window.setTimeout and not yet run or cleared
  events              \* history: the calls of the wrapper and of func, in order

chatVars == <<conversation_participants, messages>>
stickerVars == <<sticker_packs, user_purchases, checkout>>
schemaVars == <<relationships, timeline>>
signupVars == <<auth_users, user_settings, create_user>>
feedVars == <<page_user, feedType, followingPosts, trendingPosts, recentPosts, like_requests>>
containerVars == <<serviceContainer, init_calls, built>>
cacheVars == <<capacity, cache, keys, cache_ops, last_used>>
debounceVars == <<wait, timeout, clock, timers, events>>
pageVars == <<feedVars, containerVars, cacheVars, debounceVars>>
clientVars == <<signupVars, pageVars>>
extVars == <<user_roles, comment_likes, reports, chatVars, stickerVars, schemaVars,
             clientVars>>

vars == <<profiles, follows, posts, post_likes, post_saves, comments,
          ephemeral_content, now, tx, direct_writes, result, extVars>>

\* ------------------------------------------------------------ table helpers
\* The table without the rows whose keys are in ks.
DeleteRows(tbl, ks) == [k \in DOMAIN tbl \ ks |-> tbl[k]]

\* The table with one more row.
InsertRow(tbl, k, row) == [x \in DOMAIN tbl \cup {k} |-> IF x = k THEN row ELSE tbl[x]]

Outcome(op, status) == [op |-> op, status |-> status]

\* --------------------------------------------------------------- functions
\* UPDATE <table> SET <column> = <column> + 1 WHERE id = $1
increment_counter(tbl, column_name, id) ==
  IF id \in DOMAIN tbl
    THEN [tbl EXCEPT ![id][column_name] = @ + 1]
    ELSE tbl

\* UPDATE <table> SET <column> = GREATEST(0, <column> - 1) WHERE id = $1
decrement_counter(tbl, column_name, id) ==
  IF id \in DOMAIN tbl
    THEN [tbl EXCEPT ![id][column_name] = IF @ - 1 > 0 THEN @ - 1 ELSE 0]
    ELSE tbl

\* COALESCE(likes_count,0)*1.0 + COALESCE(comments_count,0)*3.0 + ... of the row
calculate_engagement_score(tbl, post_id) ==
  tbl[post_id].likes_count * 1 + tbl[post_id].comments_count * 3
    + tbl[post_id].shares_count * 5 + tbl[post_id].saves_count * 10

\* AFTER INSERT OR DELETE ON post_likes / comments, FOR EACH ROW
update_engagement_score(tbl, post_id) ==
  IF post_id \in DOMAIN tbl
    THEN [tbl EXCEPT ![post_id].engagement_score = calculate_engagement_score(tbl, post_id)]
    ELSE tbl

\* AFTER INSERT OR DELETE ON follows, FOR EACH ROW
update_follow_counts(tbl, TG_OP, follower_id, following_id) ==
  IF TG_OP = "INSERT"
    THEN increment_counter(increment_counter(tbl, "following_count", follower_id),
                           "followers_count", following_id)
    ELSE decrement_counter(decrement_counter(tbl, "following_count", follower_id),
                           "followers_count", following_id)

\* update_post_count without its DELETE branch.
update_post_count_insert_only(tbl, TG_OP, creator_id) ==
  IF TG_OP = "INSERT"
    THEN increment_counter(tbl, "posts_count", creator_id)
    ELSE tbl

\* AFTER INSERT OR DELETE ON posts, FOR EACH ROW
update_post_count(tbl, TG_OP, creator_id) ==
  IF TG_OP = "INSERT"
    THEN increment_counter(tbl, "posts_count", creator_id)
    ELSE decrement_counter(tbl, "posts_count", creator_id)

\* The row trigger of a table run once for each row of a statement.
RECURSIVE ForEachFollow(_, _, _)
ForEachFollow(tbl, TG_OP, rows) ==
  IF rows = {} THEN tbl
  ELSE LET r == CHOOSE x \in rows : TRUE
       IN ForEachFollow(update_follow_counts(tbl, TG_OP, r[1], r[2]), TG_OP, rows \ {r})

RECURSIVE ForEachPost(_, _, _, _)
ForEachPost(tbl, TG_OP, rows, ps) ==
  IF rows = {} THEN tbl
  ELSE LET p == CHOOSE x \in rows : TRUE
       IN ForEachPost(update_post_count(tbl, TG_OP, ps[p].creator_id), TG_OP, rows \ {p}, ps)

RECURSIVE ForEachScore(_, _)
ForEachScore(tbl, post_ids) ==
  IF post_ids = {} THEN tbl
  ELSE LET p == CHOOSE x \in post_ids : TRUE
       IN ForEachScore(update_engagement_score(tbl, p), post_ids \ {p})

\* ---------------------------------------------------------------- defaults
\* public.profiles column defaults
NewProfile == [followers_count |-> 0, following_count |-> 0, posts_count |-> 0,
               display_name |-> "new"]

\* public.posts column defaults
NewPost(creator_id) ==
  [creator_id |-> creator_id, likes_count |-> 0, comments_count |-> 0,
   shares_count |-> 0, saves_count |-> 0, engagement_score |-> 0,
   is_private |-> FALSE]

\* ---------------------------------------------------------------- policies
\* "Users can update their own profile": FOR UPDATE USING (auth.uid() = id)
ProfilesUpdatePolicy(uid, id) == uid = id

\* "Users can insert their own posts": WITH CHECK (auth.uid() = creator_id)
PostsInsertPolicy(uid, creator_id) == uid = creator_id

\* "Users can update their own posts" / "Users can delete their own posts"
PostsOwnerPolicy(uid, post_id) == uid = posts[post_id].creator_id

\* The INSERT policy of follows with no check of the caller.
FollowsInsertPolicy_open(uid, follower_id) == TRUE

\* "Users can follow others": WITH CHECK (auth.uid() = follower_id)
FollowsInsertPolicy(uid, follower_id) == uid = follower_id

\* "Users can unfollow": FOR DELETE USING (auth.uid() = follower_id)
FollowsDeletePolicy(uid, follower_id) == uid = follower_id

\* "Users can like posts" / "Users can unlike posts" / saves / comments:
\* (auth.uid() = user_id)
InteractionPolicy(uid, user_id) == uid = user_id

\* UNIQUE(follower_id, following_id), UNIQUE(post_id, user_id)
UniqueViolation(tbl, key) == key \in tbl

\* SQL NULL, and undefined in the pages
NULL == -1

Init ==
  /\ profiles = <<>>
  /\ follows = {}
  /\ posts = <<>>
  /\ post_likes = {}
  /\ post_saves = {}
  /\ comments = <<>>
  /\ ephemeral_content = <<>>
  /\ now = 0
  /\ tx = <<>>
  /\ direct_writes = 0
  /\ result = Outcome("none", "ok")
  /\ user_roles = <<>>
  /\ comment_likes = {}
  /\ reports = <<>>
  /\ conversation_participants = <<>>
  /\ messages = <<>>
  /\ sticker_packs = <<>>
  /\ user_purchases = <<>>
  /\ checkout = {}
  /\ relationships = <<>>
  /\ timeline = <<>>
  /\ auth_users = {}
  /\ user_settings = {}
  /\ create_user = <<>>
  /\ page_user = NULL
  /\ feedType = "forYou"
  /\ followingPosts = <<>>
  /\ trendingPosts = <<>>
  /\ recentPosts = <<>>
  /\ like_requests = <<>>
  /\ serviceContainer = NULL
  /\ init_calls = {}
  /\ built = 0
  /\ capacity = NULL
  /\ cache = <<>>
  /\ keys = <<>>
  /\ cache_ops = 0
  /\ last_used = <<>>
  /\ wait = NULL
  /\ timeout = NULL
  /\ clock = 0
  /\ timers = {}
  /\ events = <<>>

\* ----------------------------------------------------------- cascades (FK)
\* comments.parent_id REFERENCES comments(id) ON DELETE CASCADE: the comments
\* removed with the comments in roots.
RECURSIVE Descendants(_, _)
Descendants(cs, roots) ==
  LET more == {c \in DOMAIN cs : cs[c].parent_id \in roots} \ roots
  IN IF more = {} THEN roots ELSE Descendants(cs, roots \cup more)

\* Comments removed when the posts in ps and the profiles in us go away.
CommentsOf(ps, us) ==
  Descendants(comments,
              {c \in DOMAIN comments : comments[c].post_id \in ps \/ comments[c].user_id \in us})

\* comment_likes.comment_id / user_id ... ON DELETE CASCADE
LikesOfComments(cs, us) == {l \in comment_likes : l[1] \in cs \/ l[2] \in us}

\* reports.reporter_id / reported_user_id / reported_post_id /
\* reported_comment_id ... ON DELETE CASCADE
ReportsOn(us, ps, cs) ==
  {r \in DOMAIN reports : \/ reports[r].reporter_id \in us
                          \/ reports[r].reported_user_id \in us
                          \/ reports[r].reported_post_id \in ps
                          \/ reports[r].reported_comment_id \in cs}

\* -------------------------------------------------------------- auth.users
\* on_auth_user_created -> handle_new_user(): INSERT INTO public.profiles,
\* INSERT INTO public.user_roles (user_id, role) VALUES (NEW.id, 'user')
Signup(id) ==
  /\ id \notin auth_users
  /\ id \notin DOMAIN profiles
  /\ auth_users' = auth_users \cup {id}
  /\ profiles' = InsertRow(profiles, id, NewProfile)
  /\ user_roles' = InsertRow(user_roles, id, "user")
  /\ result' = Outcome("signup", "ok")
  /\ UNCHANGED schemaVars
  /\ UNCHANGED <<user_settings, create_user, pageVars>>
  /\ UNCHANGED <<follows, posts, post_likes, post_saves, comments,
                 ephemeral_content, now, tx, direct_writes,
                 comment_likes, reports, chatVars, stickerVars>>

\* DELETE FROM auth.users: profiles(id) ... ON DELETE CASCADE, and every table
\* that references profiles(id) ON DELETE CASCADE, with their row triggers.
DeleteProfile(id) ==
  /\ id \in DOMAIN profiles
  /\ LET gone_follows == {f \in follows : f[1] = id \/ f[2] = id}
         gone_posts == {p \in DOMAIN posts : posts[p].creator_id = id}
         gone_comments == CommentsOf(gone_posts, {id})
         gone_likes == {l \in post_likes : l[1] \in gone_posts \/ l[2] = id}
         gone_saves == {l \in post_saves : l[1] \in gone_posts \/ l[2] = id}
         posts1 == DeleteRows(posts, gone_posts)
         rescored == {l[1] : l \in gone_likes}
                       \cup {comments[c].post_id : c \in gone_comments}
         profiles1 == ForEachFollow(DeleteRows(profiles, {id}), "DELETE", gone_follows)
     IN /\ profiles' = ForEachPost(profiles1, "DELETE", gone_posts, posts)
        /\ follows' = follows \ gone_follows
        /\ posts' = ForEachScore(posts1, rescored)
        /\ post_likes' = post_likes \ gone_likes
        /\ post_saves' = post_saves \ gone_saves
        /\ comments' = DeleteRows(comments, gone_comments)
        /\ ephemeral_content' =
             DeleteRows(ephemeral_content,
                        {e \in DOMAIN ephemeral_content : ephemeral_content[e].creator_id = id})
        /\ comment_likes' = comment_likes \ LikesOfComments(gone_comments, {id})
        /\ reports' = DeleteRows(reports, ReportsOn({id}, gone_posts, gone_comments))
        /\ LET gone_packs == {k \in DOMAIN sticker_packs : sticker_packs[k].creator_id = id}
           IN /\ sticker_packs' = DeleteRows(sticker_packs, gone_packs)
              /\ user_purchases' =
                   DeleteRows(user_purchases,
                              {k \in DOMAIN user_purchases :
                                 \/ user_purchases[k].user_id = id
                                 \/ user_purchases[k].pack_id \in gone_packs})
  /\ user_roles' = DeleteRows(user_roles, {id})
  /\ conversation_participants' =
       DeleteRows(conversation_participants,
                  {k \in DOMAIN conversation_participants : k[2] = id})
  /\ messages' = DeleteRows(messages, {m \in DOMAIN messages : messages[m].sender_id = id})
  /\ relationships' =
       DeleteRows(relationships,
                  {k \in DOMAIN relationships : k[1] = id \/ k[2] = id})
  /\ timeline' = DeleteRows(timeline, {p \in DOMAIN timeline : timeline[p].user_id = id})
  /\ auth_users' = auth_users \ {id}
  /\ user_settings' = user_settings \ {id}
  /\ result' = Outcome("delete_profile", "ok")
  /\ UNCHANGED <<now, tx, direct_writes, checkout, create_user, pageVars>>

\* ------------------------------------------------------------------ follows
\* INSERT INTO follows (follower_id, following_id) by the caller uid
Follow(uid, follower_id, following_id) ==
  /\ uid \in DOMAIN profiles
  /\ Cardinality(follows) < MaxFollows
  /\ IF ~FollowsInsertPolicy(uid, follower_id)
       THEN /\ result' = Outcome("follow", "denied")
            /\ UNCHANGED <<profiles, follows>>
     ELSE IF follower_id \notin DOMAIN profiles \/ following_id \notin DOMAIN profiles
       THEN /\ result' = Outcome("follow", "fk_violation")
            /\ UNCHANGED <<profiles, follows>>
     ELSE IF UniqueViolation(follows, <<follower_id, following_id>>)
       THEN /\ result' = Outcome("follow", "unique_violation")
            /\ UNCHANGED <<profiles, follows>>
     ELSE /\ follows' = follows \cup {<<follower_id, following_id>>}
          /\ profiles' = update_follow_counts(profiles, "INSERT", follower_id, following_id)
          /\ result' = Outcome("follow", "ok")
  /\ UNCHANGED <<posts, post_likes, post_saves, comments, ephemeral_content, now, tx, direct_writes, extVars>>

\* DELETE FROM follows WHERE follower_id = .. AND following_id = .. by uid
Unfollow(uid, follower_id, following_id) ==
  /\ uid \in DOMAIN profiles
  /\ LET hit == {f \in follows : /\ f = <<follower_id, following_id>>
                                 /\ FollowsDeletePolicy(uid, f[1])}
     IN /\ follows' = follows \ hit
        /\ profiles' = ForEachFollow(profiles, "DELETE", hit)
        /\ result' = Outcome("unfollow", IF hit = {} THEN "no_rows" ELSE "ok")
  /\ UNCHANGED <<posts, post_likes, post_saves, comments, ephemeral_content, now, tx, direct_writes, extVars>>

\* -------------------------------------------------------------------- posts
\* INSERT INTO posts (creator_id, ...) by the caller uid
CreatePost(uid, creator_id, id) ==
  /\ uid \in DOMAIN profiles
  /\ id \notin DOMAIN posts
  /\ IF ~PostsInsertPolicy(uid, creator_id)
       THEN /\ result' = Outcome("create_post", "denied")
            /\ UNCHANGED <<profiles, posts>>
     ELSE IF creator_id \notin DOMAIN profiles
       THEN /\ result' = Outcome("create_post", "fk_violation")
            /\ UNCHANGED <<profiles, posts>>
     ELSE /\ posts' = InsertRow(posts, id, NewPost(creator_id))
          /\ profiles' = update_post_count(profiles, "INSERT", creator_id)
          /\ result' = Outcome("create_post", "ok")
  /\ UNCHANGED <<follows, post_likes, post_saves, comments, ephemeral_content, now, tx, direct_writes, extVars>>

\* DELETE FROM posts WHERE id = .. by the caller uid
DeletePost(uid, id) ==
  /\ uid \in DOMAIN profiles
  /\ LET hit == {p \in DOMAIN posts : p = id /\ PostsOwnerPolicy(uid, p)}
         gone_comments == CommentsOf(hit, {})
     IN /\ posts' = DeleteRows(posts, hit)
        /\ profiles' = ForEachPost(profiles, "DELETE", hit, posts)
        /\ post_likes' = {l \in post_likes : l[1] \notin hit}
        /\ post_saves' = {l \in post_saves : l[1] \notin hit}
        /\ comments' = DeleteRows(comments, gone_comments)
        /\ comment_likes' = comment_likes \ LikesOfComments(gone_comments, {})
        /\ reports' = DeleteRows(reports, ReportsOn({}, hit, gone_comments))
        /\ result' = Outcome("delete_post", IF hit = {} THEN "no_rows" ELSE "ok")
  /\ UNCHANGED schemaVars
  /\ UNCHANGED clientVars
  /\ UNCHANGED <<follows, ephemeral_content, now, tx, direct_writes,
                 user_roles, chatVars, stickerVars>>

\* The social graph and the posts, as the application drives them.
NextGraph ==
  \/ \E id \in Ids : Signup(id)
  \/ \E id \in Ids : DeleteProfile(id)
  \/ \E a, b \in Ids : Follow(a, a, b)
  \/ \E a, b \in Ids : Unfollow(a, a, b)
  \/ \E a \in Ids, p \in PostIds : CreatePost(a, a, p)
  \/ \E a \in Ids, p \in PostIds : DeletePost(a, p)

SpecGraph == Init /\ [][NextGraph]_vars

\* ------------------------------------------------------------------ counts
FollowersOf(id) == Cardinality({f \in follows : f[2] = id})
FollowingOf(id) == Cardinality({f \in follows : f[1] = id})
PostsOf(id) == Cardinality({p \in DOMAIN posts : posts[p].creator_id = id})

C2_FollowRoundTrip ==
  [][/\ \A id \in DOMAIN profiles' :
          profiles'[id].followers_count >= 0 /\ profiles'[id].following_count >= 0
     /\ \A a, b \in Ids :
          (<<a, b>> \notin follows /\ <<a, b>> \in follows')
            => /\ profiles'[a].following_count = profiles[a].following_count + 1
               /\ profiles'[b].followers_count = profiles[b].followers_count + 1
     /\ \A a, b \in Ids :
          (result'.op = "unfollow" /\ <<a, b>> \in follows /\ <<a, b>> \notin follows')
            => /\ profiles'[a].following_count = profiles[a].following_count - 1
               /\ profiles'[b].followers_count = profiles[b].followers_count - 1
     /\ (result' = Outcome("unfollow", "no_rows"))
            => (profiles' = profiles /\ follows' = follows)]_vars

\* ------------------------------------------------------------ interactions
Interactions ==
  Cardinality(post_likes) + Cardinality(post_saves) + Cardinality(DOMAIN comments)

\* supabase.from("post_likes").insert({post_id, user_id}) by the caller uid
LikePost(uid, post_id, user_id) ==
  /\ uid \in DOMAIN profiles
  /\ Interactions < MaxInteractions
  /\ IF ~InteractionPolicy(uid, user_id)
       THEN /\ result' = Outcome("like", "denied")
            /\ UNCHANGED <<posts, post_likes>>
     ELSE IF post_id \notin DOMAIN posts \/ user_id \notin DOMAIN profiles
       THEN /\ result' = Outcome("like", "fk_violation")
            /\ UNCHANGED <<posts, post_likes>>
     ELSE IF UniqueViolation(post_likes, <<post_id, user_id>>)
       THEN /\ result' = Outcome("like", "unique_violation")
            /\ UNCHANGED <<posts, post_likes>>
     ELSE /\ post_likes' = post_likes \cup {<<post_id, user_id>>}
          /\ posts' = update_engagement_score(posts, post_id)
          /\ result' = Outcome("like", "ok")
  /\ UNCHANGED <<profiles, follows, post_saves, comments, ephemeral_content, now, tx, direct_writes, extVars>>

\* supabase.from("post_likes").delete().eq("post_id", ..).eq("user_id", ..)
UnlikePost(uid, post_id, user_id) ==
  /\ uid \in DOMAIN profiles
  /\ LET hit == {l \in post_likes : l = <<post_id, user_id>> /\ InteractionPolicy(uid, l[2])}
     IN /\ post_likes' = post_likes \ hit
        /\ posts' = ForEachScore(posts, {l[1] : l \in hit})
        /\ result' = Outcome("unlike", IF hit = {} THEN "no_rows" ELSE "ok")
  /\ UNCHANGED <<profiles, follows, post_saves, comments, ephemeral_content, now, tx, direct_writes, extVars>>

\* INSERT INTO post_saves (post_id, user_id): the table has no trigger
SavePost(uid, post_id, user_id) ==
  /\ uid \in DOMAIN profiles
  /\ Interactions < MaxInteractions
  /\ IF ~InteractionPolicy(uid, user_id)
       THEN /\ result' = Outcome("save", "denied")
            /\ UNCHANGED post_saves
     ELSE IF post_id \notin DOMAIN posts \/ user_id \notin DOMAIN profiles
       THEN /\ result' = Outcome("save", "fk_violation")
            /\ UNCHANGED post_saves
     ELSE IF UniqueViolation(post_saves, <<post_id, user_id>>)
       THEN /\ result' = Outcome("save", "unique_violation")
            /\ UNCHANGED post_saves
     ELSE /\ post_saves' = post_saves \cup {<<post_id, user_id>>}
          /\ result' = Outcome("save", "ok")
  /\ UNCHANGED <<profiles, follows, posts, post_likes, comments, ephemeral_content, now, tx, direct_writes, extVars>>

\* DELETE FROM post_saves WHERE post_id = .. AND user_id = ..
UnsavePost(uid, post_id, user_id) ==
  /\ uid \in DOMAIN profiles
  /\ LET hit == {l \in post_saves : l = <<post_id, user_id>> /\ InteractionPolicy(uid, l[2])}
     IN /\ post_saves' = post_saves \ hit
        /\ result' = Outcome("unsave", IF hit = {} THEN "no_rows" ELSE "ok")
  /\ UNCHANGED <<profiles, follows, posts, post_likes, comments, ephemeral_content, now, tx, direct_writes, extVars>>

\* INSERT INTO comments (post_id, user_id, content, parent_id); parent_id 0 is NULL
InsertComment(uid, id, post_id, user_id, parent_id) ==
  /\ uid \in DOMAIN profiles
  /\ id \notin DOMAIN comments
  /\ Interactions < MaxInteractions
  /\ IF ~InteractionPolicy(uid, user_id)
       THEN /\ result' = Outcome("comment", "denied")
            /\ UNCHANGED <<posts, comments>>
     ELSE IF \/ post_id \notin DOMAIN posts
             \/ user_id \notin DOMAIN profiles
             \/ (parent_id # 0 /\ parent_id \notin DOMAIN comments)
       THEN /\ result' = Outcome("comment", "fk_violation")
            /\ UNCHANGED <<posts, comments>>
     ELSE /\ comments' = InsertRow(comments, id,
                                   [post_id |-> post_id, user_id |-> user_id,
                                    parent_id |-> parent_id])
          /\ posts' = update_engagement_score(posts, post_id)
          /\ result' = Outcome("comment", "ok")
  /\ UNCHANGED <<profiles, follows, post_likes, post_saves, ephemeral_content, now, tx, direct_writes, extVars>>

\* DELETE FROM comments WHERE id = .., with the replies that cascade
DeleteComment(uid, id) ==
  /\ uid \in DOMAIN profiles
  /\ LET hit == {c \in DOMAIN comments : c = id /\ InteractionPolicy(uid, comments[c].user_id)}
         gone == Descendants(comments, hit)
     IN /\ comments' = DeleteRows(comments, gone)
        /\ posts' = ForEachScore(posts, {comments[c].post_id : c \in gone})
        /\ comment_likes' = comment_likes \ LikesOfComments(gone, {})
        /\ reports' = DeleteRows(reports, ReportsOn({}, {}, gone))
        /\ result' = Outcome("delete_comment", IF hit = {} THEN "no_rows" ELSE "ok")
  /\ UNCHANGED schemaVars
  /\ UNCHANGED clientVars
  /\ UNCHANGED <<profiles, follows, post_likes, post_saves, ephemeral_content, now, tx,
                 direct_writes, user_roles, chatVars, stickerVars>>

\* Likes, saves and comments on posts, as the application drives them.
NextEngage ==
  \/ \E id \in Ids : Signup(id)
  \/ \E a \in Ids, p \in PostIds : CreatePost(a, a, p)
  \/ \E a \in Ids, p \in PostIds : LikePost(a, p, a)
  \/ \E a \in Ids, p \in PostIds : UnlikePost(a, p, a)
  \/ \E a \in Ids, p \in PostIds : SavePost(a, p, a)
  \/ \E a \in Ids, p \in PostIds : UnsavePost(a, p, a)
  \/ \E a \in Ids, c \in CommentIds, p \in PostIds, parent \in {0} \cup CommentIds :
       InsertComment(a, c, p, a, parent)
  \/ \E a \in Ids, c \in CommentIds : DeleteComment(a, c)

SpecEngage == Init /\ [][NextEngage]_vars

LikesOf(post_id) == Cardinality({l \in post_likes : l[1] = post_id})
SavesOf(post_id) == Cardinality({l \in post_saves : l[1] = post_id})
CommentsOn(post_id) == Cardinality({c \in DOMAIN comments : comments[c].post_id = post_id})

\* C3: for every post p, after any sequence of Like and Comment inserts and
\* deletes, engagement_score = likes(p)*1 + comments(p)*3 + shares(p)*5 +
\* saves(p)*10, likes(p) and comments(p) being the numbers of Like and
\* Comment rows attached to p.
C3_ScoreMatchesRows ==
  \A p \in DOMAIN posts :
    posts[p].engagement_score =
      LikesOf(p) * 1 + CommentsOn(p) * 3 + posts[p].shares_count * 5
        + posts[p].saves_count * 10

\* C4: likes_count (saves_count) of a post equals the number of Like (Save)
\* rows on it after any sequence of Like/Save inserts and deletes, and is
\* never negative.
C4_LikeSaveCountersMatchRows ==
  \A p \in DOMAIN posts :
    /\ posts[p].likes_count = LikesOf(p)
    /\ posts[p].saves_count = SavesOf(p)
    /\ posts[p].likes_count >= 0 /\ posts[p].saves_count >= 0

\* C5: a second insert of a Like, Follow or Save with the (user, target) pair
\* of an existing row is rejected, leaves the rows unchanged, and leaves the
\* parent counter incremented exactly once for each pair.
C5_DuplicateRejectedCounterOnce ==
  [][(result'.status = "unique_violation")
       => /\ follows' = follows /\ post_likes' = post_likes /\ post_saves' = post_saves
          /\ result'.op = "follow" =>
               \A id \in DOMAIN profiles' :
                 /\ profiles'[id].followers_count = Cardinality({f \in follows' : f[2] = id})
                 /\ profiles'[id].following_count = Cardinality({f \in follows' : f[1] = id})
          /\ result'.op = "like" =>
               \A p \in DOMAIN posts' :
                 posts'[p].likes_count = Cardinality({l \in post_likes' : l[1] = p})
          /\ result'.op = "save" =>
               \A p \in DOMAIN posts' :
                 posts'[p].saves_count = Cardinality({l \in post_saves' : l[1] = p})]_vars

\* ------------------------------------------------- concurrent transactions
\* A follow or unfollow request is one transaction: the statement on follows,
\* then the two UPDATEs of update_follow_counts, then the commit.  tx holds
\* the open transactions: their statement, and the row versions they wrote
\* and have not committed.

\* The profiles table as the transaction of session s reads it for an UPDATE:
\* the committed rows, and its own uncommitted row versions.
TxView(s) ==
  [r \in DOMAIN profiles |->
     IF r \in DOMAIN tx[s].writes THEN tx[s].writes[r] ELSE profiles[r]]

\* Every row lock lets others through.
RowLockFree_never_held(s, row) == TRUE

\* UPDATE takes the lock of the row it changes and keeps it until the end of
\* its transaction: the row is free for s when no other open transaction
\* wrote it.
RowLockFree(s, row) == \A t \in DOMAIN tx \ {s} : row \notin DOMAIN tx[t].writes

\* The statement of the request: INSERT INTO follows / DELETE FROM follows
TxBegin(s, TG_OP, following_id) ==
  /\ s \in DOMAIN profiles /\ following_id \in DOMAIN profiles
  /\ s \notin DOMAIN tx
  /\ IF TG_OP = "INSERT"
       THEN ~UniqueViolation(follows, <<s, following_id>>)
       ELSE <<s, following_id>> \in follows
  /\ tx' = InsertRow(tx, s, [pc |-> "row", op |-> TG_OP, target |-> following_id,
                             writes |-> <<>>])
  /\ result' = Outcome("begin", "ok")
  /\ UNCHANGED <<profiles, follows, posts, post_likes, post_saves, comments,
                 ephemeral_content, now, direct_writes, extVars>>

\* update_follow_counts, first PERFORM: following_count of the follower
TxUpdateFollowing(s) ==
  /\ s \in DOMAIN tx /\ tx[s].pc = "row"
  /\ RowLockFree(s, s)
  /\ LET updated == IF tx[s].op = "INSERT"
                      THEN increment_counter(TxView(s), "following_count", s)
                      ELSE decrement_counter(TxView(s), "following_count", s)
     IN tx' = [tx EXCEPT ![s].pc = "following",
                         ![s].writes = InsertRow(@, s, updated[s])]
  /\ result' = Outcome("update", "ok")
  /\ UNCHANGED <<profiles, follows, posts, post_likes, post_saves, comments,
                 ephemeral_content, now, direct_writes, extVars>>

\* update_follow_counts, second PERFORM: followers_count of the followed
TxUpdateFollowers(s) ==
  /\ s \in DOMAIN tx /\ tx[s].pc = "following"
  /\ RowLockFree(s, tx[s].target)
  /\ LET b == tx[s].target
         updated == IF tx[s].op = "INSERT"
                      THEN increment_counter(TxView(s), "followers_count", b)
                      ELSE decrement_counter(TxView(s), "followers_count", b)
     IN tx' = [tx EXCEPT ![s].pc = "followers",
                         ![s].writes = InsertRow(@, b, updated[b])]
  /\ result' = Outcome("update", "ok")
  /\ UNCHANGED <<profiles, follows, posts, post_likes, post_saves, comments,
                 ephemeral_content, now, direct_writes, extVars>>

\* COMMIT: the row of follows and the row versions become the stored ones.
TxCommit(s) ==
  /\ s \in DOMAIN tx /\ tx[s].pc = "followers"
  /\ follows' = IF tx[s].op = "INSERT"
                  THEN follows \cup {<<s, tx[s].target>>}
                  ELSE follows \ {<<s, tx[s].target>>}
  /\ profiles' = TxView(s)
  /\ tx' = DeleteRows(tx, {s})
  /\ result' = Outcome("commit", "ok")
  /\ UNCHANGED <<posts, post_likes, post_saves, comments, ephemeral_content, now,
                 direct_writes, extVars>>

\* ROLLBACK (the request is abandoned, or fails): nothing it wrote remains.
TxRollback(s) ==
  /\ s \in DOMAIN tx
  /\ tx' = DeleteRows(tx, {s})
  /\ result' = Outcome("rollback", "ok")
  /\ UNCHANGED <<profiles, follows, posts, post_likes, post_saves, comments,
                 ephemeral_content, now, direct_writes, extVars>>

\* Several identities follow or unfollow one identity at the same time.
NextConc ==
  \/ \E id \in Sessions \cup {ConcTarget} : Signup(id)
  \/ \E s \in Sessions, op \in {"INSERT", "DELETE"} : TxBegin(s, op, ConcTarget)
  \/ \E s \in Sessions : TxUpdateFollowing(s)
  \/ \E s \in Sessions : TxUpdateFollowers(s)
  \/ \E s \in Sessions : TxCommit(s)
  \/ \E s \in Sessions : TxRollback(s)

SpecConc == Init /\ [][NextConc]_vars

ColumnValues == {-1, 0, 1}

ProfileCounterColumns == {"followers_count", "following_count", "posts_count"}
PostCounterColumns == {"likes_count", "comments_count", "shares_count", "saves_count",
                       "engagement_score"}

\* supabase.from('profiles').update({<column>: value}).eq('id', id) by the
\* caller uid: the only check is "Users can update their own profile".
UpdateProfileColumn(uid, id, column_name, value) ==
  /\ uid \in DOMAIN profiles
  /\ direct_writes < MaxDirectWrites
  /\ direct_writes' = direct_writes + 1
  /\ LET hit == {r \in DOMAIN profiles : r = id /\ ProfilesUpdatePolicy(uid, r)}
     IN /\ profiles' = [r \in DOMAIN profiles |->
                          IF r \in hit THEN [profiles[r] EXCEPT ![column_name] = value]
                                       ELSE profiles[r]]
        /\ result' = Outcome("update_profile", IF hit = {} THEN "no_rows" ELSE "ok")
  /\ UNCHANGED <<follows, posts, post_likes, post_saves, comments, ephemeral_content,
                 now, tx, extVars>>

\* SupabaseUserRepository.updateUserProfile: display_name, bio, avatar_url,
\* banner_url, username and updated_at are the only columns it sends.
updateUserProfile(uid, userId, displayName) ==
  /\ uid \in DOMAIN profiles
  /\ LET hit == {r \in DOMAIN profiles : r = userId /\ ProfilesUpdatePolicy(uid, r)}
     IN /\ profiles' = [r \in DOMAIN profiles |->
                          IF r \in hit THEN [profiles[r] EXCEPT !.display_name = displayName]
                                       ELSE profiles[r]]
        /\ result' = Outcome("updateUserProfile", IF hit = {} THEN "error" ELSE "ok")
  /\ UNCHANGED <<follows, posts, post_likes, post_saves, comments, ephemeral_content,
                 now, tx, direct_writes, extVars>>

\* supabase.from('posts').update({<column>: value}).eq('id', id) by the caller
\* uid: the only check is "Users can update their own posts".
UpdatePostColumn(uid, id, column_name, value) ==
  /\ uid \in DOMAIN profiles
  /\ direct_writes < MaxDirectWrites
  /\ direct_writes' = direct_writes + 1
  /\ LET hit == {p \in DOMAIN posts : p = id /\ PostsOwnerPolicy(uid, p)}
     IN /\ posts' = [p \in DOMAIN posts |->
                       IF p \in hit THEN [posts[p] EXCEPT ![column_name] = value]
                                    ELSE posts[p]]
        /\ result' = Outcome("update_post", IF hit = {} THEN "no_rows" ELSE "ok")
  /\ UNCHANGED <<profiles, follows, post_likes, post_saves, comments, ephemeral_content,
                 now, tx, extVars>>

\* Every statement on profiles, follows and posts that the policies accept
\* from a signed-in client.
NextCounters ==
  \/ \E id \in Ids : Signup(id)
  \/ \E uid, a, b \in Ids : Follow(uid, a, b)
  \/ \E uid, a, b \in Ids : Unfollow(uid, a, b)
  \/ \E uid, a \in Ids, p \in PostIds : CreatePost(uid, a, p)
  \/ \E uid, id \in Ids : updateUserProfile(uid, id, "edited")
  \/ \E uid, id \in Ids, c \in ProfileCounterColumns, v \in ColumnValues :
       UpdateProfileColumn(uid, id, c, v)
  \/ \E uid \in Ids, p \in PostIds, c \in PostCounterColumns, v \in ColumnValues :
       UpdatePostColumn(uid, p, c, v)

SpecCounters == Init /\ [][NextCounters]_vars

\* Statements whose triggers maintain a derived counter.
TriggerOps == {"follow", "unfollow", "create_post", "delete_post", "delete_profile",
               "like", "unlike", "comment", "delete_comment", "commit"}

\* C7: no statement the policies accept from a client changes a derived
\* counter directly: followers_count, following_count, posts_count,
\* likes_count, comments_count, saves_count and engagement_score of a row
\* change only in a step of a statement whose trigger maintains them.
C7_CountersOnlyByTriggers ==
  [][(\/ \E id \in DOMAIN profiles \cap DOMAIN profiles', c \in ProfileCounterColumns :
           profiles'[id][c] # profiles[id][c]
      \/ \E p \in DOMAIN posts \cap DOMAIN posts', c \in PostCounterColumns \ {"shares_count"} :
           posts'[p][c] # posts[p][c])
       => result'.op \in TriggerOps]_vars

\* ------------------------------------------------------- ephemeral content
\* CHECK (duration_hours IN (6, 12, 24))
DurationCheck(duration_hours) == duration_hours \in {6, 12, 24}

\* "Users can insert their own ephemeral content": WITH CHECK (auth.uid() = creator_id)
EphemeralInsertPolicy(uid, creator_id) == uid = creator_id

\* "Ephemeral content is viewable by everyone": USING (expires_at > NOW())
EphemeralSelectPolicy(row) == row.expires_at > now

\* The cleanup with its comparison turned around.
CleanupPredicate_reversed(row) == row.expires_at > now

\* The cleanup taking the rows that expire at this very instant as well.
CleanupPredicate_inclusive(row) == row.expires_at <= now

\* cleanup-ephemeral-content: ... WHERE expires_at < NOW()
CleanupPredicate(row) == row.expires_at < now

\* INSERT INTO ephemeral_content (creator_id, content_url, content_type,
\* duration_hours, expires_at) by the caller uid; created_at DEFAULT NOW()
InsertEphemeral(uid, id, creator_id, duration_hours, expires_at) ==
  /\ uid \in DOMAIN profiles
  /\ id \notin DOMAIN ephemeral_content
  /\ IF ~EphemeralInsertPolicy(uid, creator_id)
       THEN /\ result' = Outcome("insert_void", "denied")
            /\ UNCHANGED ephemeral_content
     ELSE IF ~DurationCheck(duration_hours)
       THEN /\ result' = Outcome("insert_void", "check_violation")
            /\ UNCHANGED ephemeral_content
     ELSE IF creator_id \notin DOMAIN profiles
       THEN /\ result' = Outcome("insert_void", "fk_violation")
            /\ UNCHANGED ephemeral_content
     ELSE /\ ephemeral_content' =
               InsertRow(ephemeral_content, id,
                         [creator_id |-> creator_id, duration_hours |-> duration_hours,
                          expires_at |-> expires_at, created_at |-> now])
          /\ result' = Outcome("insert_void", "ok")
  /\ UNCHANGED <<profiles, follows, posts, post_likes, post_saves, comments, now, tx,
                 direct_writes, extVars>>

\* SELECT * FROM ephemeral_content by any caller: the rows the policy shows
SelectEphemeral ==
  /\ result' = [op |-> "select_void", status |-> "ok",
                rows |-> {e \in DOMAIN ephemeral_content :
                            EphemeralSelectPolicy(ephemeral_content[e])}]
  /\ UNCHANGED <<profiles, follows, posts, post_likes, post_saves, comments,
                 ephemeral_content, now, tx, direct_writes, extVars>>

\* The cron job: DELETE FROM public.ephemeral_content WHERE expires_at < NOW();
\* the run reports the rows it deleted.
Cleanup ==
  /\ LET gone == {e \in DOMAIN ephemeral_content : CleanupPredicate(ephemeral_content[e])}
     IN /\ ephemeral_content' = DeleteRows(ephemeral_content, gone)
        /\ result' = [op |-> "cleanup", status |-> "ok", rows |-> gone]
  /\ UNCHANGED <<profiles, follows, posts, post_likes, post_saves, comments, now, tx,
                 direct_writes, extVars>>

\* Time passes.
Tick ==
  /\ now < MaxTicks * TickHours
  /\ now' = now + TickHours
  /\ result' = Outcome("tick", "ok")
  /\ UNCHANGED <<profiles, follows, posts, post_likes, post_saves, comments,
                 ephemeral_content, tx, direct_writes, extVars>>

\* duration_hours and expires_at as a client may send them.
DurationInputs == {1, 6, 12, 24}
ExpiryInputs(duration_hours) == {now, now + duration_hours}

NextVoid ==
  \/ \E id \in Ids : Signup(id)
  \/ \E uid, creator \in Ids, e \in VoidIds, d \in DurationInputs :
       \E x \in ExpiryInputs(d) : InsertEphemeral(uid, e, creator, d, x)
  \/ SelectEphemeral
  \/ Cleanup
  \/ Tick

SpecVoid == Init /\ [][NextVoid]_vars

\* The cron job keeps being run.
SpecVoidFair == SpecVoid /\ WF_vars(Cleanup)

\* C8: an ephemeral_content row is readable exactly while now() < expires_at:
\* it is readable right after its creation, every read returns the stored
\* rows with now() < expires_at and no others, and a row is left out from the
\* instant now() >= expires_at on even when the cleanup has not removed it.
C8_ReadableWhileNotExpired ==
  /\ \A e \in DOMAIN ephemeral_content :
       ephemeral_content[e].created_at = now
         => EphemeralSelectPolicy(ephemeral_content[e])
  /\ result.op = "select_void"
       => result.rows = {e \in DOMAIN ephemeral_content :
                           now < ephemeral_content[e].expires_at}

\* C9: every ephemeral_content row that can be created has duration_hours in
\* {6, 12, 24} and expires_at = created_at + duration_hours.
C9_ExpiryIsCreationPlusDuration ==
  \A e \in DOMAIN ephemeral_content :
    /\ ephemeral_content[e].duration_hours \in {6, 12, 24}
    /\ ephemeral_content[e].expires_at =
         ephemeral_content[e].created_at + ephemeral_content[e].duration_hours

\* C10: every ephemeral_content row whose expires_at has passed is eventually
\* deleted by the cleanup, provided the cleanup keeps being run; no read is
\* needed for it.
C10_ExpiredEventuallyDeleted ==
  \A e \in VoidIds :
    (e \in DOMAIN ephemeral_content /\ ephemeral_content[e].expires_at < now)
      ~> (e \notin DOMAIN ephemeral_content)

\* A row whose expiry has passed and that is still stored.
C10_Witness ==
  \E e \in DOMAIN ephemeral_content :
    /\ ephemeral_content[e].expires_at < now
    /\ ephemeral_content[e].expires_at =
         ephemeral_content[e].created_at + ephemeral_content[e].duration_hours

\* Several ephemeral rows of different ages and the cleanup that finds them.
NextSweep ==
  \/ \E id \in Ids : Signup(id)
  \/ \E a \in Ids, e \in SweepIds, d \in {6, 12} :
       \E x \in ExpiryInputs(d) : InsertEphemeral(a, e, a, d, x)
  \/ Cleanup
  \/ Tick

SpecSweep == Init /\ [][NextSweep]_vars

\* C11: a cleanup run at time t deletes exactly the ephemeral_content rows
\* with expires_at < t, leaves every other row of every table and every
\* counter as it was, deletes no row that is still readable, and a second run
\* at the same t changes nothing.
C11_SweepExactIdempotent ==
  [][result'.op = "cleanup" =>
       /\ DOMAIN ephemeral_content' =
            {e \in DOMAIN ephemeral_content : ~(ephemeral_content[e].expires_at < now)}
       /\ \A e \in DOMAIN ephemeral_content' : ephemeral_content'[e] = ephemeral_content[e]
       /\ \A e \in DOMAIN ephemeral_content \ DOMAIN ephemeral_content' :
            ~(now < ephemeral_content[e].expires_at)
       /\ UNCHANGED <<profiles, follows, posts, post_likes, post_saves, comments, now,
                      extVars>>
       /\ (result.op = "cleanup" => ephemeral_content' = ephemeral_content)]_vars

\* A cleanup has just deleted a row and left another one, which expires at
\* this very instant.
C11_Witness ==
  /\ result.op = "cleanup"
  /\ result.rows # {}
  /\ \E e \in DOMAIN ephemeral_content : ephemeral_content[e].expires_at = now

\* ----------------------------------------------------------------- messages
\* The rows of public.conversations are the conversation ids; none of their
\* columns enters a policy.
ConvIds == 1..NumConvs
MessageIds == 1..NumMessages


\* conversation_participants has row level security enabled and no policy:
\* a statement of a client sees none of its rows and may write none.
ParticipantsPolicy(uid, key) == FALSE

\* The rows of conversation_participants a sub-select of the caller uid sees.
VisibleParticipants(uid) ==
  {k \in DOMAIN conversation_participants : ParticipantsPolicy(uid, k)}

\* The SELECT policy of messages with row level security left disabled.
MessagesSelectPolicy_disabled(uid, conversation_id) == TRUE

\* "Users can view messages in their conversations": USING (EXISTS (SELECT 1
\* FROM conversation_participants WHERE conversation_id = messages.conversation_id
\* AND user_id = auth.uid() AND left_at IS NULL))
MessagesSelectPolicy(uid, conversation_id) ==
  \E k \in VisibleParticipants(uid) :
    /\ k[1] = conversation_id
    /\ k[2] = uid
    /\ conversation_participants[k].left_at = NULL

\* "Users can send messages": WITH CHECK (the same sub-select)
MessagesInsertPolicy(uid, conversation_id) ==
  \E k \in VisibleParticipants(uid) :
    /\ k[1] = conversation_id
    /\ k[2] = uid
    /\ conversation_participants[k].left_at = NULL

\* INSERT INTO conversation_participants (conversation_id, user_id) by a role
\* that bypasses row level security
AddParticipant(conversation_id, user_id) ==
  /\ user_id \in DOMAIN profiles
  /\ <<conversation_id, user_id>> \notin DOMAIN conversation_participants
  /\ Cardinality(DOMAIN conversation_participants) < MaxParticipants
  /\ conversation_participants' =
       InsertRow(conversation_participants, <<conversation_id, user_id>>,
                 [left_at |-> NULL])
  /\ result' = Outcome("add_participant", "ok")
  /\ UNCHANGED schemaVars
  /\ UNCHANGED clientVars
  /\ UNCHANGED <<profiles, follows, posts, post_likes, post_saves, comments,
                 ephemeral_content, now, tx, direct_writes,
                 user_roles, comment_likes, reports, messages, stickerVars>>

\* UPDATE conversation_participants SET left_at = NOW() by such a role
LeaveConversation(conversation_id, user_id) ==
  /\ <<conversation_id, user_id>> \in DOMAIN conversation_participants
  /\ conversation_participants[<<conversation_id, user_id>>].left_at = NULL
  /\ conversation_participants' =
       [conversation_participants EXCEPT ![<<conversation_id, user_id>>].left_at = now]
  /\ result' = Outcome("leave", "ok")
  /\ UNCHANGED schemaVars
  /\ UNCHANGED clientVars
  /\ UNCHANGED <<profiles, follows, posts, post_likes, post_saves, comments,
                 ephemeral_content, now, tx, direct_writes,
                 user_roles, comment_likes, reports, messages, stickerVars>>

\* INSERT INTO conversation_participants by the client uid
JoinConversation(uid, conversation_id, user_id) ==
  /\ uid \in DOMAIN profiles
  /\ IF ~ParticipantsPolicy(uid, <<conversation_id, user_id>>)
       THEN /\ result' = Outcome("join", "denied")
            /\ UNCHANGED conversation_participants
     ELSE IF user_id \notin DOMAIN profiles
       THEN /\ result' = Outcome("join", "fk_violation")
            /\ UNCHANGED conversation_participants
     ELSE IF <<conversation_id, user_id>> \in DOMAIN conversation_participants
       THEN /\ result' = Outcome("join", "unique_violation")
            /\ UNCHANGED conversation_participants
     ELSE /\ conversation_participants' =
               InsertRow(conversation_participants, <<conversation_id, user_id>>,
                         [left_at |-> NULL])
          /\ result' = Outcome("join", "ok")
  /\ UNCHANGED schemaVars
  /\ UNCHANGED clientVars
  /\ UNCHANGED <<profiles, follows, posts, post_likes, post_saves, comments,
                 ephemeral_content, now, tx, direct_writes,
                 user_roles, comment_likes, reports, messages, stickerVars>>

\* INSERT INTO messages (conversation_id, sender_id, content) by the client uid
SendMessage(uid, id, conversation_id, sender_id) ==
  /\ uid \in DOMAIN profiles
  /\ id \notin DOMAIN messages
  /\ IF ~MessagesInsertPolicy(uid, conversation_id)
       THEN /\ result' = [op |-> "send_message", status |-> "denied", uid |-> uid,
                          conversation_id |-> conversation_id]
            /\ UNCHANGED messages
     ELSE IF sender_id \notin DOMAIN profiles
       THEN /\ result' = [op |-> "send_message", status |-> "fk_violation", uid |-> uid,
                          conversation_id |-> conversation_id]
            /\ UNCHANGED messages
     ELSE /\ messages' = InsertRow(messages, id,
                                   [conversation_id |-> conversation_id,
                                    sender_id |-> sender_id, created_at |-> now])
          /\ result' = [op |-> "send_message", status |-> "ok", uid |-> uid,
                        conversation_id |-> conversation_id]
  /\ UNCHANGED schemaVars
  /\ UNCHANGED clientVars
  /\ UNCHANGED <<profiles, follows, posts, post_likes, post_saves, comments,
                 ephemeral_content, now, tx, direct_writes,
                 user_roles, comment_likes, reports, conversation_participants, stickerVars>>

\* INSERT INTO messages by a role that bypasses row level security
DeliverMessage(id, conversation_id, sender_id) ==
  /\ id \notin DOMAIN messages
  /\ sender_id \in DOMAIN profiles
  /\ messages' = InsertRow(messages, id,
                           [conversation_id |-> conversation_id,
                            sender_id |-> sender_id, created_at |-> now])
  /\ result' = Outcome("deliver_message", "ok")
  /\ UNCHANGED schemaVars
  /\ UNCHANGED clientVars
  /\ UNCHANGED <<profiles, follows, posts, post_likes, post_saves, comments,
                 ephemeral_content, now, tx, direct_writes,
                 user_roles, comment_likes, reports, conversation_participants, stickerVars>>

\* SELECT * FROM messages by the client uid: the rows the policy shows
SelectMessages(uid) ==
  /\ uid \in DOMAIN profiles
  /\ result' = [op |-> "select_messages", status |-> "ok", uid |-> uid,
                rows |-> {m \in DOMAIN messages :
                            MessagesSelectPolicy(uid, messages[m].conversation_id)}]
  /\ UNCHANGED <<profiles, follows, posts, post_likes, post_saves, comments,
                 ephemeral_content, now, tx, direct_writes, extVars>>

NextChat ==
  \/ \E id \in Ids : Signup(id)
  \/ \E c \in ConvIds, u \in Ids : AddParticipant(c, u)
  \/ \E c \in ConvIds, u \in Ids : LeaveConversation(c, u)
  \/ \E uid, u \in Ids, c \in ConvIds : JoinConversation(uid, c, u)
  \/ \E uid \in Ids, m \in MessageIds, c \in ConvIds : SendMessage(uid, m, c, uid)
  \/ \E m \in MessageIds, c \in ConvIds : DeliverMessage(m, c, 1)
  \/ \E uid \in Ids : SelectMessages(uid)
  \/ (now < MaxChatTicks * TickHours /\ Tick)

SpecChat == Init /\ [][NextChat]_vars

\* The caller uid is listed in conversation c and has not left it.
CurrentParticipant(uid, c) ==
  /\ <<c, uid>> \in DOMAIN conversation_participants
  /\ conversation_participants[<<c, uid>>].left_at = NULL

\* C12: an identity reads or sends a message of conversation c only if it is
\* listed as a participant of c with left_at IS NULL; an identity that has
\* left c reads no message of c sent after its departure.
C12_MessagesOnlyForCurrentParticipants ==
  /\ result.op = "select_messages" =>
       \A m \in result.rows :
         /\ CurrentParticipant(result.uid, messages[m].conversation_id)
         /\ \A k \in DOMAIN conversation_participants :
              (k = <<messages[m].conversation_id, result.uid>>
                 /\ conversation_participants[k].left_at # NULL)
                => messages[m].created_at < conversation_participants[k].left_at
  /\ (result.op = "send_message" /\ result.status = "ok") =>
       CurrentParticipant(result.uid, result.conversation_id)

\* An identity that left a conversation reads, and the conversation holds a
\* message sent after the departure.
C12_Witness ==
  /\ result.op = "select_messages"
  /\ \E m \in DOMAIN messages :
       LET k == <<messages[m].conversation_id, result.uid>>
       IN /\ k \in DOMAIN conversation_participants
          /\ conversation_participants[k].left_at # NULL
          /\ messages[m].created_at > conversation_participants[k].left_at

\* ------------------------------------------------------------ sticker packs
PackIds == 1..NumPacks

\* What the price field of the form (type="number", min 0) holds at submit.
PriceInputs == {"0", "0.00", "", "5"}

\* Prices a statement written by hand may carry.
StoredPrices == {0, 5}

\* parseFloat(price) of the form's strings; the empty string gives NaN.
parseFloat(str) ==
  CASE str = "0" -> [nan |-> FALSE, value |-> 0]
    [] str = "0.00" -> [nan |-> FALSE, value |-> 0]
    [] str = "5" -> [nan |-> FALSE, value |-> 5]
    [] OTHER -> [nan |-> TRUE, value |-> 0]

\* x || 0
OrZero(x) == IF x.nan \/ x.value = 0 THEN 0 ELSE x.value

\* is_approved: price === "0"
AutoApprove(price) == price = "0"

\* "Anyone can view approved public sticker packs" OR "Users can view their
\* own sticker packs"
PacksSelectPolicy(uid, row) ==
  (row.is_public /\ row.is_approved) \/ uid = row.creator_id

\* "Users can create sticker packs": WITH CHECK (auth.uid() = creator_id)
PacksInsertPolicy(uid, creator_id) == uid = creator_id

\* "Users can update their sticker packs" / "Users can delete their sticker
\* packs": USING (auth.uid() = creator_id)
PacksOwnerPolicy(uid, row) == uid = row.creator_id

\* stickers has row level security enabled and no policy.
StickersInsertPolicy(uid) == FALSE

\* The uploads of one submission that the object storage may refuse.
UploadFailures == {"none", "cover", "sticker"}

\* handleSubmit of the pack form, for the signed-in user: the checks of the
\* form, the upload of the cover, the insert of the pack, the upload and the
\* insert of the stickers. Every error is caught and shown as a toast; no
\* step undoes an earlier one.
handleSubmit(user, id, packName, stickers_length, price, isPublic, failed_upload) ==
  /\ user \in DOMAIN profiles
  /\ id \notin DOMAIN sticker_packs
  /\ IF packName = "" \/ stickers_length < 3
       THEN /\ result' = [op |-> "create_pack", status |-> "invalid", id |-> id]
            /\ UNCHANGED sticker_packs
     ELSE IF failed_upload = "cover"
       THEN /\ result' = [op |-> "create_pack", status |-> "error", id |-> id]
            /\ UNCHANGED sticker_packs
     ELSE /\ sticker_packs' =
               InsertRow(sticker_packs, id,
                         [creator_id |-> user, price |-> OrZero(parseFloat(price)),
                          is_public |-> isPublic, is_approved |-> AutoApprove(price)])
          /\ result' = [op |-> "create_pack",
                        status |-> IF failed_upload = "sticker" THEN "error"
                                   ELSE IF StickersInsertPolicy(user) THEN "ok"
                                   ELSE "error",
                        id |-> id]
  /\ UNCHANGED schemaVars
  /\ UNCHANGED clientVars
  /\ UNCHANGED <<profiles, follows, posts, post_likes, post_saves, comments,
                 ephemeral_content, now, tx, direct_writes,
                 user_roles, comment_likes, reports, chatVars, user_purchases, checkout>>

\* INSERT INTO sticker_packs (...) written by the client uid itself
InsertPack(uid, id, creator_id, price, is_public, is_approved) ==
  /\ uid \in DOMAIN profiles
  /\ id \notin DOMAIN sticker_packs
  /\ IF ~PacksInsertPolicy(uid, creator_id)
       THEN /\ result' = [op |-> "insert_pack", status |-> "denied", uid |-> uid]
            /\ UNCHANGED sticker_packs
     ELSE IF creator_id \notin DOMAIN profiles
       THEN /\ result' = [op |-> "insert_pack", status |-> "fk_violation", uid |-> uid]
            /\ UNCHANGED sticker_packs
     ELSE /\ sticker_packs' =
               InsertRow(sticker_packs, id,
                         [creator_id |-> creator_id, price |-> price,
                          is_public |-> is_public, is_approved |-> is_approved])
          /\ result' = [op |-> "insert_pack", status |-> "ok", uid |-> uid]
  /\ UNCHANGED schemaVars
  /\ UNCHANGED clientVars
  /\ UNCHANGED <<profiles, follows, posts, post_likes, post_saves, comments,
                 ephemeral_content, now, tx, direct_writes,
                 user_roles, comment_likes, reports, chatVars, user_purchases, checkout>>

\* UPDATE sticker_packs SET <column> = <value> WHERE id = .. by the client uid
UpdatePack(uid, id, column_name, value) ==
  /\ uid \in DOMAIN profiles
  /\ LET hit == {p \in DOMAIN sticker_packs : p = id /\ PacksOwnerPolicy(uid, sticker_packs[p])}
     IN /\ sticker_packs' =
             [p \in DOMAIN sticker_packs |->
                IF p \in hit THEN [sticker_packs[p] EXCEPT ![column_name] = value]
                ELSE sticker_packs[p]]
        /\ result' = [op |-> "update_pack", status |-> IF hit = {} THEN "no_rows" ELSE "ok",
                      uid |-> uid]
  /\ UNCHANGED schemaVars
  /\ UNCHANGED clientVars
  /\ UNCHANGED <<profiles, follows, posts, post_likes, post_saves, comments,
                 ephemeral_content, now, tx, direct_writes,
                 user_roles, comment_likes, reports, chatVars, user_purchases, checkout>>

\* DELETE FROM sticker_packs WHERE id = .. by the client uid; user_purchases
\* .pack_id ... ON DELETE CASCADE
DeletePack(uid, id) ==
  /\ uid \in DOMAIN profiles
  /\ LET hit == {p \in DOMAIN sticker_packs : p = id /\ PacksOwnerPolicy(uid, sticker_packs[p])}
     IN /\ sticker_packs' = DeleteRows(sticker_packs, hit)
        /\ user_purchases' =
             DeleteRows(user_purchases,
                        {k \in DOMAIN user_purchases : user_purchases[k].pack_id \in hit})
        /\ result' = [op |-> "delete_pack", status |-> IF hit = {} THEN "no_rows" ELSE "ok",
                      uid |-> uid]
  /\ UNCHANGED schemaVars
  /\ UNCHANGED clientVars
  /\ UNCHANGED <<profiles, follows, posts, post_likes, post_saves, comments,
                 ephemeral_content, now, tx, direct_writes,
                 user_roles, comment_likes, reports, chatVars, checkout>>

\* The approval of a pack by the moderation, on behalf of the identity uid
\* that holds the moderator or the admin role.
ApprovePack(uid, id) ==
  /\ uid \in DOMAIN user_roles
  /\ user_roles[uid] \in {"moderator", "admin"}
  /\ id \in DOMAIN sticker_packs
  /\ sticker_packs' = [sticker_packs EXCEPT ![id].is_approved = TRUE]
  /\ result' = [op |-> "approve_pack", status |-> "ok", uid |-> uid]
  /\ UNCHANGED schemaVars
  /\ UNCHANGED clientVars
  /\ UNCHANGED <<profiles, follows, posts, post_likes, post_saves, comments,
                 ephemeral_content, now, tx, direct_writes,
                 user_roles, comment_likes, reports, chatVars, user_purchases, checkout>>

\* UPDATE user_roles SET role = .. WHERE user_id = .., run by hand as the
\* set-up notes say
AssignRole(user_id, role) ==
  /\ user_id \in DOMAIN user_roles
  /\ user_roles' = [user_roles EXCEPT ![user_id] = role]
  /\ result' = Outcome("assign_role", "ok")
  /\ UNCHANGED schemaVars
  /\ UNCHANGED clientVars
  /\ UNCHANGED <<profiles, follows, posts, post_likes, post_saves, comments,
                 ephemeral_content, now, tx, direct_writes,
                 comment_likes, reports, chatVars, stickerVars>>

\* SELECT * FROM sticker_packs by the client uid: the rows the policies show
SelectPacks(uid) ==
  /\ uid \in DOMAIN profiles
  /\ result' = [op |-> "select_packs", status |-> "ok", uid |-> uid,
                rows |-> {p \in DOMAIN sticker_packs :
                            PacksSelectPolicy(uid, sticker_packs[p])}]
  /\ UNCHANGED <<profiles, follows, posts, post_likes, post_saves, comments,
                 ephemeral_content, now, tx, direct_writes, extVars>>

NextPacks ==
  \/ \E id \in Ids : Signup(id)
  \/ \E id \in Ids : AssignRole(id, "moderator")
  \/ \E u \in Ids, p \in PackIds, name \in {"", "pack"}, n \in {2, 3},
        price \in PriceInputs, isPublic \in BOOLEAN, failed \in UploadFailures :
       handleSubmit(u, p, name, n, price, isPublic, failed)
  \/ \E uid, creator \in Ids, p \in PackIds, price \in StoredPrices,
        is_public, is_approved \in BOOLEAN :
       InsertPack(uid, p, creator, price, is_public, is_approved)
  \/ \E uid \in Ids, p \in PackIds, c \in {"is_public", "is_approved"}, v \in BOOLEAN :
       UpdatePack(uid, p, c, v)
  \/ \E uid \in Ids, p \in PackIds, v \in StoredPrices : UpdatePack(uid, p, "price", v)
  \/ \E uid \in Ids, p \in PackIds : DeletePack(uid, p)
  \/ \E uid \in Ids, p \in PackIds : ApprovePack(uid, p)
  \/ \E uid \in Ids : SelectPacks(uid)

SpecPacks == Init /\ [][NextPacks]_vars

\* C15: for every price the pack form can submit, the pack it creates has
\* is_approved = TRUE exactly when its stored price is 0.
C15_ApprovedIffFree ==
  (result.op = "create_pack" /\ result.id \in DOMAIN sticker_packs) =>
    (sticker_packs[result.id].is_approved <=> sticker_packs[result.id].price = 0)

\* The pack is shown to identities other than its creator.
Listed(row) == row.is_public /\ row.is_approved

\* C16: a pack is readable by an identity other than its creator only when
\* is_public and is_approved both hold, and a pack with price > 0 comes to be
\* public and approved only by the act of an identity that holds the moderator
\* or the admin role, never by an act of its creator alone.
C16_PaidListedOnlyByModeration ==
  [][/\ result'.op = "select_packs" =>
          \A p \in result'.rows :
            sticker_packs[p].creator_id = result'.uid \/ Listed(sticker_packs[p])
     /\ \A p \in DOMAIN sticker_packs' :
          (/\ sticker_packs'[p].price > 0
           /\ Listed(sticker_packs'[p])
           /\ ~(p \in DOMAIN sticker_packs /\ sticker_packs[p].price > 0
                  /\ Listed(sticker_packs[p])))
            => /\ result'.uid \in DOMAIN user_roles
               /\ user_roles[result'.uid] \in {"moderator", "admin"}]_vars

\* ---------------------------------------------------------- sticker store
PurchaseIds == 1..NumPurchases

\* "System can insert purchases": WITH CHECK (TRUE)
PurchasesInsertPolicy(uid, user_id) == TRUE

\* useStickers(): the packs the store lists, the packs bought by the user
\* and the packs made by the user.
publicPacks == {p \in DOMAIN sticker_packs : Listed(sticker_packs[p])}
ownedPacks(user) ==
  {user_purchases[k].pack_id : k \in {x \in DOMAIN user_purchases :
                                        user_purchases[x].user_id = user}}
myPacks(user) == {p \in DOMAIN sticker_packs : sticker_packs[p].creator_id = user}

\* allPacks: publicPacks.map(pack => ({...pack, is_owned:
\* ownedPackIds.has(pack.id) || myPackIds.has(pack.id)}))
allPacks(user) ==
  [p \in publicPacks |->
     [id |-> p, price |-> sticker_packs[p].price,
      is_owned |-> (p \in ownedPacks(user) \/ p \in myPacks(user))]]

\* handlePurchase(pack) of the signed-in user; k is the key the insert draws,
\* response the answer of /functions/v1/sticker-checkout.
handlePurchase(user, pack, k, response) ==
  /\ user \in DOMAIN profiles
  /\ k \notin DOMAIN user_purchases
  /\ IF pack.is_owned
       THEN /\ result' = [op |-> "handle_purchase", status |-> "owned", uid |-> user,
                          pack_id |-> pack.id]
            /\ UNCHANGED <<user_purchases, checkout>>
     ELSE IF pack.price = 0
       THEN IF PurchasesInsertPolicy(user, user) /\ pack.id \in DOMAIN sticker_packs
              THEN /\ user_purchases' =
                        InsertRow(user_purchases, k,
                                  [user_id |-> user, pack_id |-> pack.id, amount |-> 0,
                                   payment_id |-> "free_download"])
                   /\ result' = [op |-> "handle_purchase", status |-> "ok", uid |-> user,
                                 pack_id |-> pack.id]
                   /\ UNCHANGED checkout
              ELSE /\ result' = [op |-> "handle_purchase", status |-> "error",
                                 uid |-> user, pack_id |-> pack.id]
                   /\ UNCHANGED <<user_purchases, checkout>>
     ELSE IF response = "url"
       THEN /\ checkout' = checkout \cup {<<user, pack.id>>}
            /\ result' = [op |-> "handle_purchase", status |-> "redirect", uid |-> user,
                          pack_id |-> pack.id]
            /\ UNCHANGED user_purchases
     ELSE /\ result' = [op |-> "handle_purchase", status |-> "error", uid |-> user,
                        pack_id |-> pack.id]
          /\ UNCHANGED <<user_purchases, checkout>>
  /\ UNCHANGED schemaVars
  /\ UNCHANGED clientVars
  /\ UNCHANGED <<profiles, follows, posts, post_likes, post_saves, comments,
                 ephemeral_content, now, tx, direct_writes,
                 user_roles, comment_likes, reports, chatVars, sticker_packs>>

\* The payment collaborator confirms the payment of an open checkout: the
\* purchase is recorded.
ConfirmPayment(user, pack_id, k) ==
  /\ <<user, pack_id>> \in checkout
  /\ k \notin DOMAIN user_purchases
  /\ checkout' = checkout \ {<<user, pack_id>>}
  /\ IF user \in DOMAIN profiles /\ pack_id \in DOMAIN sticker_packs
       THEN /\ user_purchases' =
                 InsertRow(user_purchases, k,
                           [user_id |-> user, pack_id |-> pack_id,
                            amount |-> sticker_packs[pack_id].price,
                            payment_id |-> "payment"])
            /\ result' = [op |-> "confirm_payment", status |-> "ok", uid |-> user,
                          pack_id |-> pack_id]
       ELSE /\ result' = [op |-> "confirm_payment", status |-> "fk_violation",
                          uid |-> user, pack_id |-> pack_id]
            /\ UNCHANGED user_purchases
  /\ UNCHANGED schemaVars
  /\ UNCHANGED clientVars
  /\ UNCHANGED <<profiles, follows, posts, post_likes, post_saves, comments,
                 ephemeral_content, now, tx, direct_writes,
                 user_roles, comment_likes, reports, chatVars, sticker_packs>>

\* The checkout is abandoned or the payment fails.
AbandonCheckout(user, pack_id) ==
  /\ <<user, pack_id>> \in checkout
  /\ checkout' = checkout \ {<<user, pack_id>>}
  /\ result' = [op |-> "abandon_checkout", status |-> "ok", uid |-> user,
                pack_id |-> pack_id]
  /\ UNCHANGED schemaVars
  /\ UNCHANGED clientVars
  /\ UNCHANGED <<profiles, follows, posts, post_likes, post_saves, comments,
                 ephemeral_content, now, tx, direct_writes,
                 user_roles, comment_likes, reports, chatVars, sticker_packs,
                 user_purchases>>

\* INSERT INTO user_purchases (user_id, pack_id, amount, payment_id) written
\* by the client uid itself
InsertPurchase(uid, k, user_id, pack_id, amount, payment_id) ==
  /\ uid \in DOMAIN profiles
  /\ k \notin DOMAIN user_purchases
  /\ IF ~PurchasesInsertPolicy(uid, user_id)
       THEN /\ result' = [op |-> "insert_purchase", status |-> "denied", uid |-> uid,
                          pack_id |-> pack_id]
            /\ UNCHANGED user_purchases
     ELSE IF user_id \notin DOMAIN profiles \/ pack_id \notin DOMAIN sticker_packs
       THEN /\ result' = [op |-> "insert_purchase", status |-> "fk_violation",
                          uid |-> uid, pack_id |-> pack_id]
            /\ UNCHANGED user_purchases
     ELSE /\ user_purchases' =
               InsertRow(user_purchases, k,
                         [user_id |-> user_id, pack_id |-> pack_id, amount |-> amount,
                          payment_id |-> payment_id])
          /\ result' = [op |-> "insert_purchase", status |-> "ok", uid |-> uid,
                        pack_id |-> pack_id]
  /\ UNCHANGED schemaVars
  /\ UNCHANGED clientVars
  /\ UNCHANGED <<profiles, follows, posts, post_likes, post_saves, comments,
                 ephemeral_content, now, tx, direct_writes,
                 user_roles, comment_likes, reports, chatVars, sticker_packs, checkout>>

NextStore ==
  \/ \E id \in Ids : Signup(id)
  \/ AssignRole(1, "moderator")
  \/ \E u \in Ids, p \in PackIds, price \in {"0", "5"} :
       handleSubmit(u, p, "pack", 3, price, TRUE, "none")
  \/ \E p \in PackIds : ApprovePack(1, p)
  \/ \E u \in Ids, k \in PurchaseIds, response \in {"url", "error"} :
       \E p \in DOMAIN allPacks(u) : handlePurchase(u, allPacks(u)[p], k, response)
  \/ \E u \in Ids, p \in PackIds, k \in PurchaseIds : ConfirmPayment(u, p, k)
  \/ \E u \in Ids, p \in PackIds : AbandonCheckout(u, p)
  \/ \E uid \in Ids, p \in PackIds, k \in PurchaseIds :
       InsertPurchase(uid, k, uid, p, 0, "forged")

SpecStore == Init /\ [][NextStore]_vars

\* A Purchase row for the pair (u, p) exists in the table tbl.
HasPurchase(tbl, u, p) ==
  \E k \in DOMAIN tbl : tbl[k].user_id = u /\ tbl[k].pack_id = p

\* C13: for a pack p with price 0, the first request of an identity u records
\* a purchase of amount 0 with the payment id "free_download" and opens no
\* checkout; for a pack p with price > 0, u is shown as owning p in no state
\* without a user_purchases row for (u, p).
C13_FreeGrantedPaidNeedsPurchase ==
  [][/\ \A u \in Ids, p \in PackIds :
          (/\ result'.op = "handle_purchase" /\ result'.uid = u /\ result'.pack_id = p
           /\ p \in DOMAIN sticker_packs /\ sticker_packs[p].price = 0
           /\ ~HasPurchase(user_purchases, u, p))
            => /\ \E k \in DOMAIN user_purchases' :
                    user_purchases'[k] = [user_id |-> u, pack_id |-> p, amount |-> 0,
                                          payment_id |-> "free_download"]
               /\ checkout' = checkout
     /\ \A u \in DOMAIN profiles' :
          \A p \in DOMAIN allPacks(u)' :
            (allPacks(u)'[p].price > 0 /\ allPacks(u)'[p].is_owned)
              => HasPurchase(user_purchases', u, p)]_vars

\* C14: a user_purchases row for a pack with price > 0 comes into existence
\* only by the confirmation of the payment collaborator: neither the purchase
\* flow of the client nor any statement a client may run creates one.
C14_PaidPurchaseOnlyAfterConfirmation ==
  [][\A k \in DOMAIN user_purchases' \ DOMAIN user_purchases :
       (/\ user_purchases'[k].pack_id \in DOMAIN sticker_packs
        /\ sticker_packs[user_purchases'[k].pack_id].price > 0)
         => result'.op = "confirm_payment"]_vars

\* ------------------------------------------------------------ comment likes
\* comment_likes has row level security enabled and no policy.
CommentLikesPolicy(uid, user_id) == FALSE

\* INSERT INTO comment_likes (comment_id, user_id) by the client uid
LikeComment(uid, comment_id, user_id) ==
  /\ uid \in DOMAIN profiles
  /\ IF ~CommentLikesPolicy(uid, user_id)
       THEN /\ result' = Outcome("like_comment", "denied")
            /\ UNCHANGED comment_likes
     ELSE IF comment_id \notin DOMAIN comments \/ user_id \notin DOMAIN profiles
       THEN /\ result' = Outcome("like_comment", "fk_violation")
            /\ UNCHANGED comment_likes
     ELSE IF UniqueViolation(comment_likes, <<comment_id, user_id>>)
       THEN /\ result' = Outcome("like_comment", "unique_violation")
            /\ UNCHANGED comment_likes
     ELSE /\ comment_likes' = comment_likes \cup {<<comment_id, user_id>>}
          /\ result' = Outcome("like_comment", "ok")
  /\ UNCHANGED schemaVars
  /\ UNCHANGED clientVars
  /\ UNCHANGED <<profiles, follows, posts, post_likes, post_saves, comments,
                 ephemeral_content, now, tx, direct_writes,
                 user_roles, reports, chatVars, stickerVars>>

\* INSERT INTO comment_likes by a role that bypasses row level security
RecordCommentLike(comment_id, user_id) ==
  /\ comment_id \in DOMAIN comments
  /\ user_id \in DOMAIN profiles
  /\ ~UniqueViolation(comment_likes, <<comment_id, user_id>>)
  /\ Cardinality(comment_likes) < MaxCommentLikes
  /\ comment_likes' = comment_likes \cup {<<comment_id, user_id>>}
  /\ result' = Outcome("record_comment_like", "ok")
  /\ UNCHANGED schemaVars
  /\ UNCHANGED clientVars
  /\ UNCHANGED <<profiles, follows, posts, post_likes, post_saves, comments,
                 ephemeral_content, now, tx, direct_writes,
                 user_roles, reports, chatVars, stickerVars>>

\* Threads of comments with their likes, and the deletes that cascade.
NextThread ==
  \/ \E id \in Ids : Signup(id)
  \/ \E a \in Ids, p \in PostIds : CreatePost(a, a, p)
  \/ \E a \in Ids, c \in CommentIds, p \in PostIds, parent \in {0} \cup CommentIds :
       InsertComment(a, c, p, a, parent)
  \/ \E a \in Ids, c \in CommentIds : LikeComment(a, c, a)
  \/ \E a \in Ids, c \in CommentIds : RecordCommentLike(c, a)
  \/ \E a \in Ids, c \in CommentIds : DeleteComment(a, c)
  \/ \E a \in Ids, p \in PostIds : DeletePost(a, p)

SpecThread == Init /\ [][NextThread]_vars

\* No comment with a missing parent and no comment like with a missing comment.
NoOrphans(cs, ls) ==
  /\ \A c \in DOMAIN cs : cs[c].parent_id = 0 \/ cs[c].parent_id \in DOMAIN cs
  /\ \A l \in ls : l[1] \in DOMAIN cs

\* C17: deleting a comment removes every reply below it and every like on
\* the removed comments, so that no comment with a missing parent and no
\* comment like with a missing comment remains, and comments_count of the post
\* goes down by the number of removed top-level comments of that post.
C17_CommentCascade ==
  [][(result'.op = "delete_comment" /\ result'.status = "ok") =>
       /\ NoOrphans(comments', comment_likes')
       /\ \A c \in DOMAIN comments \ DOMAIN comments' :
            \A d \in DOMAIN comments : comments[d].parent_id = c => d \notin DOMAIN comments'
       /\ \A p \in DOMAIN posts :
            posts'[p].comments_count =
              posts[p].comments_count
                - Cardinality({c \in DOMAIN comments \ DOMAIN comments' :
                                 comments[c].post_id = p /\ comments[c].parent_id = 0})]_vars

\* ------------------------------------------- writes in the name of another
\* "Post saves are viewable by owner": USING (auth.uid() = user_id)
PostSavesSelectPolicy(uid, user_id) == uid = user_id

\* SELECT * FROM post_saves by the client uid: the rows the policy shows
SelectSaves(uid) ==
  /\ uid \in DOMAIN profiles
  /\ result' = [op |-> "select_saves", status |-> "ok", uid |-> uid,
                rows |-> {l \in post_saves : PostSavesSelectPolicy(uid, l[2])}]
  /\ UNCHANGED <<profiles, follows, posts, post_likes, post_saves, comments,
                 ephemeral_content, now, tx, direct_writes, extVars>>

\* Follow, like, save and comment rows stored.
GuardRows == Cardinality(follows) + Interactions

\* Every caller tries every write, in its own name and in the name of another.
NextGuard ==
  \/ \E id \in Ids : Signup(id)
  \/ \E a \in Ids : CreatePost(a, a, 1)
  \/ \E uid, a, b \in Ids : (uid # a \/ GuardRows < MaxGuardRows) /\ Follow(uid, a, b)
  \/ \E uid, a, b \in Ids : Unfollow(uid, a, b)
  \/ \E uid, u \in Ids : (uid # u \/ GuardRows < MaxGuardRows) /\ LikePost(uid, 1, u)
  \/ \E uid, u \in Ids : UnlikePost(uid, 1, u)
  \/ \E uid, u \in Ids : (uid # u \/ GuardRows < MaxGuardRows) /\ SavePost(uid, 1, u)
  \/ \E uid, u \in Ids : UnsavePost(uid, 1, u)
  \/ \E uid, u \in Ids : (uid # u \/ GuardRows < MaxGuardRows) /\ InsertComment(uid, 1, 1, u, 0)
  \/ \E uid \in Ids : DeleteComment(uid, 1)
  \/ \E uid \in Ids : SelectSaves(uid)

SpecGuard == Init /\ [][NextGuard]_vars

\* The statement was not carried out: refused, or no row of the caller met.
Refused == result'.status \in {"denied", "no_rows"}

PostsSelectPolicy(uid, row) == ~row.is_private \/ row.creator_id = uid

\* SELECT * FROM posts by the client uid (NULL: not signed in)
SelectPosts(uid) ==
  /\ uid \in DOMAIN profiles \/ uid = NULL
  /\ result' = [op |-> "select_posts", status |-> "ok", uid |-> uid,
                rows |-> {p \in DOMAIN posts : PostsSelectPolicy(uid, posts[p])}]
  /\ UNCHANGED <<profiles, follows, posts, post_likes, post_saves, comments,
                 ephemeral_content, now, tx, direct_writes, extVars>>

\* 001_initial_schema.sql: posts.visibility and relationships.status
TimelineIds == 1..NumTimeline
Visibilities == {"public", "followers", "private"}
RelationshipStatuses == {"pending", "accepted", "blocked", "muted"}

\* "Relationships are viewable by participants"
RelationshipsSelectPolicy(uid, k) == uid = k[1] \/ uid = k[2]

\* "Users can insert relationships": WITH CHECK (auth.uid() = follower_id)
RelationshipsInsertPolicy(uid, follower_id) == uid = follower_id

\* "Users can update relationships they participate in"
RelationshipsUpdatePolicy(uid, k) == uid = k[1] \/ uid = k[2]

\* The three SELECT policies on posts, any of which shows the row: "Public
\* posts are viewable by everyone", "Users can view followers-only posts"
\* (its sub-select sees relationships through the caller's own policy) and
\* "Users can view their own posts". This variant takes any edge for an
\* accepted one.
VisibilitySelectPolicy_any_status(uid, row) ==
  \/ row.visibility = "public"
  \/ /\ row.visibility = "followers"
     /\ \/ row.user_id = uid
        \/ \E k \in DOMAIN relationships :
             /\ RelationshipsSelectPolicy(uid, k)
             /\ k[1] = uid /\ k[2] = row.user_id
  \/ uid = row.user_id

VisibilitySelectPolicy(uid, row) ==
  \/ row.visibility = "public"
  \/ /\ row.visibility = "followers"
     /\ \/ row.user_id = uid
        \/ \E k \in DOMAIN relationships :
             /\ RelationshipsSelectPolicy(uid, k)
             /\ k[1] = uid /\ k[2] = row.user_id
             /\ relationships[k] = "accepted"
  \/ uid = row.user_id

\* INSERT INTO posts (user_id, visibility) by the caller uid:
\* "Users can insert their own posts"
InsertTimelinePost(uid, id, user_id, visibility) ==
  /\ uid \in DOMAIN profiles
  /\ id \notin DOMAIN timeline
  /\ IF uid # user_id
       THEN /\ result' = Outcome("insert_post", "denied")
            /\ UNCHANGED timeline
     ELSE IF visibility \notin Visibilities
       THEN /\ result' = Outcome("insert_post", "check_violation")
            /\ UNCHANGED timeline
     ELSE /\ timeline' = InsertRow(timeline, id,
                                   [user_id |-> user_id, visibility |-> visibility])
          /\ result' = Outcome("insert_post", "ok")
  /\ UNCHANGED <<profiles, follows, posts, post_likes, post_saves, comments,
                 ephemeral_content, now, tx, direct_writes, user_roles,
                 comment_likes, reports, chatVars, stickerVars, relationships, clientVars>>

\* UPDATE posts SET visibility = .. WHERE id = .. by the caller uid:
\* "Users can update their own posts"
UpdateVisibility(uid, id, visibility) ==
  /\ uid \in DOMAIN profiles
  /\ LET hit == {p \in DOMAIN timeline : p = id /\ timeline[p].user_id = uid}
     IN IF hit # {} /\ visibility \notin Visibilities
          THEN /\ result' = Outcome("update_visibility", "check_violation")
               /\ UNCHANGED timeline
        ELSE /\ timeline' = [p \in DOMAIN timeline |->
                               IF p \in hit
                                 THEN [timeline[p] EXCEPT !.visibility = visibility]
                                 ELSE timeline[p]]
             /\ result' = Outcome("update_visibility",
                                  IF hit = {} THEN "no_rows" ELSE "ok")
  /\ UNCHANGED <<profiles, follows, posts, post_likes, post_saves, comments,
                 ephemeral_content, now, tx, direct_writes, user_roles,
                 comment_likes, reports, chatVars, stickerVars, relationships, clientVars>>

\* INSERT INTO relationships (follower_id, following_id, status) by uid
InsertRelationship(uid, follower_id, following_id, status) ==
  /\ uid \in DOMAIN profiles
  /\ IF ~RelationshipsInsertPolicy(uid, follower_id)
       THEN /\ result' = Outcome("insert_relationship", "denied")
            /\ UNCHANGED relationships
     ELSE IF following_id \notin DOMAIN profiles
       THEN /\ result' = Outcome("insert_relationship", "fk_violation")
            /\ UNCHANGED relationships
     ELSE IF status \notin RelationshipStatuses
       THEN /\ result' = Outcome("insert_relationship", "check_violation")
            /\ UNCHANGED relationships
     ELSE IF <<follower_id, following_id>> \in DOMAIN relationships
       THEN /\ result' = Outcome("insert_relationship", "unique_violation")
            /\ UNCHANGED relationships
     ELSE /\ relationships' =
               InsertRow(relationships, <<follower_id, following_id>>, status)
          /\ result' = Outcome("insert_relationship", "ok")
  /\ UNCHANGED <<profiles, follows, posts, post_likes, post_saves, comments,
                 ephemeral_content, now, tx, direct_writes, user_roles,
                 comment_likes, reports, chatVars, stickerVars, timeline, clientVars>>

\* UPDATE relationships SET status = .. WHERE follower_id = .. AND
\* following_id = .. by the caller uid, one of the two participants
UpdateRelationship(uid, follower_id, following_id, status) ==
  /\ uid \in DOMAIN profiles
  /\ LET hit == {k \in DOMAIN relationships :
                   /\ k = <<follower_id, following_id>>
                   /\ RelationshipsUpdatePolicy(uid, k)}
     IN IF hit # {} /\ status \notin RelationshipStatuses
          THEN /\ result' = Outcome("update_relationship", "check_violation")
               /\ UNCHANGED relationships
        ELSE /\ relationships' = [k \in DOMAIN relationships |->
                                    IF k \in hit THEN status ELSE relationships[k]]
             /\ result' = Outcome("update_relationship",
                                  IF hit = {} THEN "no_rows" ELSE "ok")
  /\ UNCHANGED <<profiles, follows, posts, post_likes, post_saves, comments,
                 ephemeral_content, now, tx, direct_writes, user_roles,
                 comment_likes, reports, chatVars, stickerVars, timeline, clientVars>>

\* SELECT * FROM posts of 001_initial_schema by the client uid (NULL: not
\* signed in)
SelectTimeline(uid) ==
  /\ uid \in DOMAIN profiles \/ uid = NULL
  /\ result' = [op |-> "select_timeline", status |-> "ok", uid |-> uid,
                rows |-> {p \in DOMAIN timeline :
                            VisibilitySelectPolicy(uid, timeline[p])}]
  /\ UNCHANGED <<profiles, follows, posts, post_likes, post_saves, comments,
                 ephemeral_content, now, tx, direct_writes, extVars>>

\* Statuses a relationship is written with while visibility is read.
StatusInputs == {"accepted", "blocked"}

\* Post and relationship rows stored, in either schema.
AudienceRows ==
  Cardinality(DOMAIN posts) + Cardinality(DOMAIN timeline)
    + Cardinality(DOMAIN relationships)

\* Owners publish and hide posts, identities follow, block and re-accept,
\* and everyone, signed in or not, reads.
NextVisibility ==
  \/ \E id \in Ids : Signup(id)
  \/ \E a \in Ids : AudienceRows < MaxAudienceRows /\ CreatePost(a, a, 1)
  \/ \E a \in Ids, v \in BOOLEAN : UpdatePostColumn(a, 1, "is_private", v)
  \/ \E uid \in Ids \cup {NULL} : SelectPosts(uid)
  \/ \E a \in Ids, p \in TimelineIds, v \in Visibilities :
       AudienceRows < MaxAudienceRows /\ InsertTimelinePost(a, p, a, v)
  \/ \E a \in Ids, p \in TimelineIds, v \in Visibilities : UpdateVisibility(a, p, v)
  \/ \E a, b \in Ids, s \in StatusInputs :
       a # b /\ AudienceRows < MaxAudienceRows /\ InsertRelationship(a, a, b, s)
  \/ \E uid, a, b \in Ids, s \in StatusInputs :
       uid \in {a, b} /\ UpdateRelationship(uid, a, b, s)
  \/ \E uid \in Ids \cup {NULL} : SelectTimeline(uid)

SpecVisibility == Init /\ [][NextVisibility]_vars

\* The caller holds an accepted edge to the owner.
AcceptedFollower(uid, owner) ==
  /\ <<uid, owner>> \in DOMAIN relationships
  /\ relationships[<<uid, owner>>] = "accepted"

\* C19: every read returns every post that is not private (is_private false,
\* visibility 'public') to any caller, signed in or not; a private post is
\* returned only to its creator, and a followers-only post only to its
\* creator or to a caller whose edge to the creator is accepted at the time
\* of the read, so not after that edge left the accepted status.
C19_PostVisibility ==
  /\ result.op = "select_posts" =>
       \A p \in DOMAIN posts :
         /\ ~posts[p].is_private => p \in result.rows
         /\ posts[p].is_private /\ p \in result.rows =>
              result.uid = posts[p].creator_id
  /\ result.op = "select_timeline" =>
       \A p \in DOMAIN timeline :
         /\ timeline[p].visibility = "public" => p \in result.rows
         /\ timeline[p].visibility = "private" /\ p \in result.rows =>
              result.uid = timeline[p].user_id
         /\ timeline[p].visibility = "followers" /\ p \in result.rows =>
              \/ result.uid = timeline[p].user_id
              \/ AcceptedFollower(result.uid, timeline[p].user_id)

\* A follower whose edge to the owner is no longer accepted reads, and the
\* owner's followers-only post is not among the rows.
C19_Witness ==
  /\ result.op = "select_timeline"
  /\ \E p \in DOMAIN timeline :
       /\ timeline[p].visibility = "followers"
       /\ result.uid # timeline[p].user_id
       /\ <<result.uid, timeline[p].user_id>> \in DOMAIN relationships
       /\ relationships[<<result.uid, timeline[p].user_id>>] = "blocked"
       /\ p \notin result.rows

\* -------------------------------------------------------------------- reports
ReportIds == 1..NumReports
ReportStatuses == {"pending", "resolved", "dismissed"}
ReviewerRoles == {"moderator", "admin"}
Roles == {"user", "moderator", "admin"}

\* user_roles: ROW LEVEL SECURITY is enabled and no policy is created, so a
\* client sees no row of it, its own included.
RolesSelectPolicy(uid, user_id) == FALSE

\* "Users can report content": WITH CHECK (auth.uid() = reporter_id)
ReportsInsertPolicy(uid, reporter_id) == uid = reporter_id

\* A policy that shows the reports to every caller.
ReportsSelectPolicy_open(uid) == TRUE

\* "Moderators can view reports": USING (EXISTS (SELECT 1 FROM user_roles
\* WHERE user_id = auth.uid() AND role IN ('moderator', 'admin'))); the
\* sub-select reads user_roles as the caller does.
ReportsSelectPolicy(uid) ==
  \E u \in DOMAIN user_roles :
    /\ RolesSelectPolicy(uid, u)
    /\ u = uid
    /\ user_roles[u] \in ReviewerRoles

\* reports: no policy FOR UPDATE (nor FOR DELETE) is created
ReportsUpdatePolicy(uid) == FALSE

\* INSERT INTO reports (reporter_id, reported_user_id, status) by the caller
InsertReport(uid, id, reporter_id, reported_user_id, status) ==
  /\ uid \in DOMAIN profiles
  /\ id \notin DOMAIN reports
  /\ IF ~ReportsInsertPolicy(uid, reporter_id)
       THEN /\ result' = [op |-> "insert_report", status |-> "denied", uid |-> uid]
            /\ UNCHANGED reports
     ELSE IF reported_user_id \notin DOMAIN profiles
       THEN /\ result' = [op |-> "insert_report", status |-> "fk_violation", uid |-> uid]
            /\ UNCHANGED reports
     ELSE IF status \notin ReportStatuses
       THEN /\ result' = [op |-> "insert_report", status |-> "check_violation",
                          uid |-> uid]
            /\ UNCHANGED reports
     ELSE /\ reports' =
               InsertRow(reports, id,
                         [reporter_id |-> reporter_id,
                          reported_user_id |-> reported_user_id,
                          reported_post_id |-> NULL, reported_comment_id |-> NULL,
                          status |-> status])
          /\ result' = [op |-> "insert_report", status |-> "ok", uid |-> uid]
  /\ UNCHANGED <<profiles, follows, posts, post_likes, post_saves, comments,
                 ephemeral_content, now, tx, direct_writes, user_roles,
                 comment_likes, chatVars, stickerVars, schemaVars, clientVars>>

\* SELECT * FROM reports by the client uid
SelectReports(uid) ==
  /\ uid \in DOMAIN profiles
  /\ result' = [op |-> "select_reports", status |-> "ok", uid |-> uid,
                rows |-> {r \in DOMAIN reports : ReportsSelectPolicy(uid)}]
  /\ UNCHANGED <<profiles, follows, posts, post_likes, post_saves, comments,
                 ephemeral_content, now, tx, direct_writes, extVars>>

\* UPDATE reports SET status = .. WHERE id = .. by the client uid
UpdateReportStatus(uid, id, status) ==
  /\ uid \in DOMAIN profiles
  /\ LET hit == {r \in DOMAIN reports : r = id /\ ReportsUpdatePolicy(uid)}
     IN /\ reports' = [r \in DOMAIN reports |->
                         IF r \in hit THEN [reports[r] EXCEPT !.status = status]
                                      ELSE reports[r]]
        /\ result' = [op |-> "update_report", uid |-> uid,
                      status |-> IF hit = {} THEN "no_rows" ELSE "ok"]
  /\ UNCHANGED <<profiles, follows, posts, post_likes, post_saves, comments,
                 ephemeral_content, now, tx, direct_writes, user_roles,
                 comment_likes, chatVars, stickerVars, schemaVars, clientVars>>

\* The triage of a report by the moderation, on behalf of the identity uid
\* that holds the moderator or the admin role.
ResolveReport(uid, id, status) ==
  /\ uid \in DOMAIN user_roles
  /\ user_roles[uid] \in ReviewerRoles
  /\ id \in DOMAIN reports
  /\ status \in ReportStatuses
  /\ reports' = [reports EXCEPT ![id].status = status]
  /\ result' = [op |-> "resolve_report", status |-> "ok", uid |-> uid]
  /\ UNCHANGED <<profiles, follows, posts, post_likes, post_saves, comments,
                 ephemeral_content, now, tx, direct_writes, user_roles,
                 comment_likes, chatVars, stickerVars, schemaVars, clientVars>>

\* Identities of every role report, list and try to move reports.
NextReports ==
  \/ \E id \in Ids : Signup(id)
  \/ \E u \in Ids, r \in Roles : AssignRole(u, r)
  \/ \E uid, a, b \in Ids, r \in ReportIds, s \in {"pending", "resolved"} :
       InsertReport(uid, r, a, b, s)
  \/ \E uid \in Ids : SelectReports(uid)
  \/ \E uid \in Ids, r \in ReportIds, s \in ReportStatuses : UpdateReportStatus(uid, r, s)
  \/ \E uid \in Ids, r \in ReportIds, s \in ReportStatuses : ResolveReport(uid, r, s)

SpecReports == Init /\ [][NextReports]_vars

\* The identity uid holds the moderator or the admin role.
Reviewer(uid) == uid \in DOMAIN user_roles /\ user_roles[uid] \in ReviewerRoles

\* C20: a report is stored only with the caller as its reporter_id; a
\* listing returns reports only to a caller whose role is moderator or admin;
\* a report leaves status 'pending' only in a step taken for such a caller;
\* and a caller of role 'user' is shown no report, its own included, and
\* changes none.
C20_ReportsGated ==
  [][/\ \A r \in DOMAIN reports' \ DOMAIN reports :
          reports'[r].reporter_id = result'.uid
     /\ result'.op = "select_reports" /\ result'.rows # {} => Reviewer(result'.uid)
     /\ \A r \in DOMAIN reports \cap DOMAIN reports' :
          reports[r].status = "pending" /\ reports'[r].status # "pending" =>
            Reviewer(result'.uid)
     /\ result'.op \in {"select_reports", "update_report", "resolve_report"}
          /\ user_roles[result'.uid] = "user" =>
            /\ reports' = reports
            /\ result'.op = "select_reports" => result'.rows = {}]_vars

\* An identity of role 'user' lists the reports while its own report is
\* stored, and is shown none.
C20_Witness ==
  /\ result.op = "select_reports"
  /\ user_roles[result.uid] = "user"
  /\ \E r \in DOMAIN reports : reports[r].reporter_id = result.uid
  /\ result.rows = {}

\* --------------------------------------------------------------- createUser
\* Everything but the rows the signup writes and the outcome of the call.
signupFrame ==
  <<follows, posts, post_likes, post_saves, comments, ephemeral_content, now,
    tx, direct_writes, user_roles, comment_likes, reports, chatVars,
    stickerVars, schemaVars, pageVars>>

\* createUser, up to the first await: supabase.auth.signUp succeeds (signUp_ok)
\* and the call goes on to insert the profile, or it answers authError and
\* the call throws. 001_initial_schema.sql, the schema of this repository
\* class, has no trigger on auth.users.
createUser(id, signUp_ok) ==
  /\ id \notin auth_users
  /\ id \notin DOMAIN create_user
  /\ IF signUp_ok
       THEN /\ auth_users' = auth_users \cup {id}
            /\ create_user' = InsertRow(create_user, id, "insert_profile")
            /\ result' = [op |-> "createUser", status |-> "pending", id |-> id]
       ELSE /\ result' = [op |-> "createUser", status |-> "threw", id |-> id]
            /\ UNCHANGED <<auth_users, create_user>>
  /\ UNCHANGED <<profiles, user_settings, signupFrame>>

\* supabase.from('profiles').insert({id: authData.user.id, ...}): the row is
\* stored, or the statement answers profileError.
createUser_insertProfile(id, insert_ok) ==
  /\ id \in DOMAIN create_user
  /\ create_user[id] = "insert_profile"
  /\ IF insert_ok /\ id \notin DOMAIN profiles
       THEN /\ profiles' = InsertRow(profiles, id, NewProfile)
            /\ create_user' = [create_user EXCEPT ![id] = "settings"]
       ELSE /\ create_user' = [create_user EXCEPT ![id] = "delete_auth_user"]
            /\ UNCHANGED profiles
  /\ result' = [op |-> "createUser", status |-> "pending", id |-> id]
  /\ UNCHANGED <<auth_users, user_settings, signupFrame>>

\* if (profileError): await supabase.auth.admin.deleteUser(id), whose answer
\* is not looked at, then throw
createUser_deleteUser(id, delete_ok) ==
  /\ id \in DOMAIN create_user
  /\ create_user[id] = "delete_auth_user"
  /\ auth_users' = IF delete_ok THEN auth_users \ {id} ELSE auth_users
  /\ create_user' = DeleteRows(create_user, {id})
  /\ result' = [op |-> "createUser", status |-> "threw", id |-> id]
  /\ UNCHANGED <<profiles, user_settings, signupFrame>>

\* await this.createUserSettings(id): the insert into user_settings, whose
\* answer is not looked at, then return mapProfileToUser(profileData)
createUserSettings(id, insert_ok) ==
  /\ id \in DOMAIN create_user
  /\ create_user[id] = "settings"
  /\ user_settings' = IF insert_ok THEN user_settings \cup {id} ELSE user_settings
  /\ create_user' = DeleteRows(create_user, {id})
  /\ result' = [op |-> "createUser", status |-> "ok", id |-> id]
  /\ UNCHANGED <<auth_users, profiles, signupFrame>>

\* Identities sign up through the trigger on auth.users or through
\* createUser, every call of which may fail.
NextSignup ==
  \/ \E id \in Ids : Signup(id)
  \/ \E id \in Ids, ok \in BOOLEAN : createUser(id, ok)
  \/ \E id \in Ids, ok \in BOOLEAN : createUser_insertProfile(id, ok)
  \/ \E id \in Ids, ok \in BOOLEAN : createUser_deleteUser(id, ok)
  \/ \E id \in Ids, ok \in BOOLEAN : createUserSettings(id, ok)
  \/ \E id \in Ids : DeleteProfile(id)

SpecSignup == Init /\ [][NextSignup]_vars

\* The profile, the settings row and the base role of the identity exist.
SignupComplete(id, ps, settings, roles) ==
  /\ id \in DOMAIN ps
  /\ id \in settings
  /\ id \in DOMAIN roles /\ roles[id] = "user"

\* C21: when a signup succeeds, through the trigger on auth.users or through
\* createUser, the identity has its profile row, its default-settings row
\* and its role row with role 'user'.
C21_SignupCreatesAllThree ==
  [][/\ result'.op = "signup" /\ result'.status = "ok" =>
          \A id \in auth_users' \ auth_users :
            SignupComplete(id, profiles', user_settings', user_roles')
     /\ result'.op = "createUser" /\ result'.status = "ok" =>
          SignupComplete(result'.id, profiles', user_settings', user_roles')]_vars

\* C26: a createUser call that throws leaves no auth user of its own without
\* a profile, and one that returns leaves both the auth user and the profile.
C26_CreateUserAllOrNothing ==
  [][result'.op = "createUser" =>
       /\ result'.status = "threw" =>
            (result'.id \in auth_users' => result'.id \in DOMAIN profiles')
       /\ result'.status = "ok" =>
            result'.id \in auth_users' /\ result'.id \in DOMAIN profiles']_vars

\* C22: a submission of the pack form that ends with an error shown to the
\* user leaves no row of its own in sticker_packs.
C22_FailedSubmissionLeavesNothing ==
  [][result'.op = "create_pack" /\ result'.status = "error" =>
       result'.id \notin DOMAIN sticker_packs']_vars

\* C23: a listing shows a current participant (left_at IS NULL) every message
\* of its conversation, and a message it sends to that conversation in its
\* own name is not refused.
C23_ParticipantsCanReadAndSend ==
  /\ result.op = "select_messages" =>
       \A m \in DOMAIN messages :
         CurrentParticipant(result.uid, messages[m].conversation_id) =>
           m \in result.rows
  /\ (result.op = "send_message"
        /\ CurrentParticipant(result.uid, result.conversation_id)) =>
       result.status # "denied"

\* ------------------------------------------------------------ feeds (Index)
FeedTypes == {"forYou", "following", "trending", "recent"}

\* Everything but the state of the page, the like rows and the outcome.
feedFrame ==
  <<profiles, follows, post_saves, comments, ephemeral_content, now, tx,
    direct_writes, user_roles, comment_likes, reports, chatVars, stickerVars,
    schemaVars, signupVars, containerVars, cacheVars, debounceVars>>

\* useAuth(): an identity signs in on the page.
SignIn(id) ==
  /\ page_user = NULL
  /\ id \in DOMAIN profiles
  /\ page_user' = id
  /\ result' = Outcome("sign_in", "ok")
  /\ UNCHANGED <<feedType, followingPosts, trendingPosts, recentPosts,
                 like_requests, posts, post_likes, feedFrame>>

\* What a fetch stores for the posts in ps: the columns of the post and
\* is_liked: !!like, the like row of the signed-in user.
FetchedPosts(ps) ==
  [p \in ps |-> [is_liked |-> <<p, page_user>> \in post_likes,
                 likes_count |-> posts[p].likes_count]]

\* fetchFollowingPosts: the posts of the creators the user follows
fetchFollowingPosts ==
  FetchedPosts({p \in DOMAIN posts : <<page_user, posts[p].creator_id>> \in follows})

\* setFeedType(t) and the effect that runs on the change: the list of the feed
\* shown is fetched again (forYou is served by useFeed).
setFeedType(t) ==
  /\ page_user # NULL
  /\ t \in FeedTypes
  /\ feedType' = t
  /\ followingPosts' = IF t = "following" THEN fetchFollowingPosts ELSE followingPosts
  /\ trendingPosts' = IF t = "trending" THEN FetchedPosts(DOMAIN posts) ELSE trendingPosts
  /\ recentPosts' = IF t = "recent" THEN FetchedPosts(DOMAIN posts) ELSE recentPosts
  /\ result' = Outcome("set_feed_type", "ok")
  /\ UNCHANGED <<page_user, like_requests, posts, post_likes, feedFrame>>

\* getCurrentPosts() outside the forYou feed
getCurrentPosts ==
  IF feedType = "following" THEN followingPosts
  ELSE IF feedType = "trending" THEN trendingPosts
  ELSE recentPosts

\* handleLikePost(postId) outside the forYou feed, on a post the feed shows:
\* the card of followingPosts is flipped, the post is looked up in
\* followingPosts, and a delete is sent if it is found there as liked, an
\* insert otherwise.
handleLikePost(postId) ==
  /\ page_user # NULL
  /\ feedType # "forYou"
  /\ postId \in DOMAIN getCurrentPosts
  /\ Len(like_requests) < MaxRequests
  /\ followingPosts' =
       [p \in DOMAIN followingPosts |->
          IF p = postId
            THEN [is_liked |-> ~followingPosts[p].is_liked,
                  likes_count |-> IF followingPosts[p].is_liked
                                    THEN followingPosts[p].likes_count - 1
                                    ELSE followingPosts[p].likes_count + 1]
            ELSE followingPosts[p]]
  /\ LET kind == IF postId \in DOMAIN followingPosts /\ followingPosts[postId].is_liked
                   THEN "delete" ELSE "insert"
     IN /\ like_requests' = Append(like_requests, [post_id |-> postId, kind |-> kind])
        /\ result' = [op |-> "handleLikePost", status |-> "sent", post_id |-> postId,
                      kind |-> kind]
  /\ UNCHANGED <<page_user, feedType, trendingPosts, recentPosts, posts, post_likes,
                 feedFrame>>

\* The sequence without its element i.
RemoveAt(seq, i) == SubSeq(seq, 1, i - 1) \o SubSeq(seq, i + 1, Len(seq))

\* One of the statements sent by the page reaches the database (each is a
\* request of its own, so they arrive in any order) and is answered; the page
\* does not look at the answer.
CompleteLikeRequest(i) ==
  /\ i \in DOMAIN like_requests
  /\ LET r == like_requests[i]
         key == <<r.post_id, page_user>>
     IN /\ IF r.kind = "insert"
             THEN IF \/ ~InteractionPolicy(page_user, page_user)
                     \/ r.post_id \notin DOMAIN posts
                     \/ UniqueViolation(post_likes, key)
                    THEN UNCHANGED <<posts, post_likes>>
                    ELSE /\ post_likes' = post_likes \cup {key}
                         /\ posts' = update_engagement_score(posts, r.post_id)
             ELSE LET hit == {l \in post_likes : l = key} IN
                    /\ post_likes' = post_likes \ hit
                    /\ posts' = ForEachScore(posts, {l[1] : l \in hit})
        /\ result' = [op |-> "like_request", status |-> "answered",
                      post_id |-> r.post_id, kind |-> r.kind]
  /\ like_requests' = RemoveAt(like_requests, i)
  /\ UNCHANGED <<page_user, feedType, followingPosts, trendingPosts, recentPosts,
                 feedFrame>>

\* Identities post and follow; one of them signs in, moves between the feeds
\* and presses the like button of the posts it is shown.
NextFeed ==
  \/ \E id \in Ids : Signup(id)
  \/ \E a \in Ids : CreatePost(a, a, 1)
  \/ \E a, b \in Ids : a # b /\ Follow(a, a, b)
  \/ \E id \in Ids : SignIn(id)
  \/ \E t \in FeedTypes : setFeedType(t)
  \/ \E p \in PostIds : handleLikePost(p)
  \/ \E i \in 1..MaxRequests : CompleteLikeRequest(i)

SpecFeed == Init /\ [][NextFeed]_vars

\* The card of post p shows a like exactly when the like row of the signed-in
\* user exists.
InSync(shown, likes, p) == shown[p].is_liked <=> <<p, page_user>> \in likes

\* C24: outside the forYou feed, a call of handleLikePost on a post whose
\* card agrees with the stored like sends a delete when the card shows the
\* like and an insert otherwise, flips is_liked on the card and moves its
\* likes_count by exactly 1, not below 0; and when the last statement sent
\* for a post is answered, the card of the post agrees with the stored like.
C24_LikeToggleMatchesRows ==
  [][/\ result'.op = "handleLikePost" =>
          LET p == result'.post_id
              shown == getCurrentPosts
              shown1 == getCurrentPosts'
          IN (like_requests = <<>> /\ InSync(shown, post_likes, p)) =>
               /\ result'.kind = IF shown[p].is_liked THEN "delete" ELSE "insert"
               /\ shown1[p].is_liked = ~shown[p].is_liked
               /\ shown1[p].likes_count =
                    IF shown[p].is_liked THEN shown[p].likes_count - 1
                                         ELSE shown[p].likes_count + 1
               /\ shown1[p].likes_count >= 0
     /\ (result'.op = "like_request" /\ like_requests' = <<>>) =>
          (result'.post_id \in DOMAIN getCurrentPosts' =>
             InSync(getCurrentPosts', post_likes', result'.post_id))]_vars

\* --------------------------------------------------- purchases, stale cards
\* The cards of the store a page of the user may hold for the listed packs:
\* the one computed from the rows as they are now, and the one rendered
\* before the purchases of the user were stored (a second press before the
\* reload, a second tab).
RenderedPacks(user) ==
  {allPacks(user)[p] : p \in DOMAIN allPacks(user)}
    \cup {[id |-> p, price |-> sticker_packs[p].price,
           is_owned |-> p \in myPacks(user)] : p \in publicPacks}

\* Creators publish free and paid packs, users press the button of a card
\* their page holds, and payments are confirmed.
NextCart ==
  \/ \E id \in Ids : Signup(id)
  \/ AssignRole(1, "moderator")
  \/ \E u \in Ids, p \in PackIds, price \in {"0", "5"} :
       handleSubmit(u, p, "pack", 3, price, TRUE, "none")
  \/ \E p \in PackIds : ApprovePack(1, p)
  \/ \E u \in Ids, k \in PurchaseIds, response \in {"url", "error"} :
       \E pack \in RenderedPacks(u) : handlePurchase(u, pack, k, response)
  \/ \E u \in Ids, p \in PackIds, k \in PurchaseIds : ConfirmPayment(u, p, k)

SpecCart == Init /\ [][NextCart]_vars

\* C25: whatever cards the calls of handlePurchase are made with, no two
\* Purchase rows share their identity and pack; and a call made with
\* is_owned true stores nothing and opens no checkout.
C25_AtMostOnePurchasePerPair ==
  [][/\ \A k1, k2 \in DOMAIN user_purchases' :
          (/\ user_purchases'[k1].user_id = user_purchases'[k2].user_id
           /\ user_purchases'[k1].pack_id = user_purchases'[k2].pack_id) => k1 = k2
     /\ (result'.op = "handle_purchase" /\ result'.status = "owned") =>
          UNCHANGED <<user_purchases, checkout>>]_vars

\* ------------------------------------------------------- ServiceInitializer
\* Everything but the container, the calls in flight and the outcome.
containerFrame ==
  <<profiles, follows, posts, post_likes, post_saves, comments,
    ephemeral_content, now, tx, direct_writes, user_roles, comment_likes,
    reports, chatVars, stickerVars, schemaVars, signupVars, feedVars,
    cacheVars, debounceVars>>

ServiceNames ==
  {"authService", "userService", "postService", "messageService",
   "notificationService"}

\* The instance of a service in the container the call n builds: the
\* AuthService it constructed first (the n-th of the run), or one of the four
\* services constructed after the await.
ServiceInstance(n, name) == <<name, n>>

\* getServiceContainer() without its test of the container.
getServiceContainer_unchecked(container) ==
  [threw |-> FALSE, value |-> container]

\* getServiceContainer(): throws 'Services not initialized' if
\* (!serviceContainer), returns the container otherwise.
getServiceContainer(container) ==
  IF container = NULL THEN [threw |-> TRUE, value |-> NULL]
  ELSE [threw |-> FALSE, value |-> container]

\* initializeServices(), up to the await: new AuthService() and the call of
\* authService.initialize().
initializeServices ==
  /\ built < MaxInitCalls
  /\ built' = built + 1
  /\ init_calls' = init_calls \cup {built + 1}
  /\ result' = [op |-> "initializeServices", status |-> "pending", call |-> built + 1]
  /\ UNCHANGED <<serviceContainer, containerFrame>>

\* authService.initialize() of the call n settles: resolved, the other
\* services are constructed and the container is assigned; rejected, the
\* catch block logs and rethrows.
initializeServices_settled(n, resolved) ==
  /\ n \in init_calls
  /\ init_calls' = init_calls \ {n}
  /\ IF resolved
       THEN /\ serviceContainer' = n
            /\ result' = [op |-> "initializeServices", status |-> "ok", call |-> n]
       ELSE /\ UNCHANGED serviceContainer
            /\ result' = [op |-> "initializeServices", status |-> "threw", call |-> n]
  /\ UNCHANGED <<built, containerFrame>>

\* getAuthService() .. getNotificationService(): getServiceContainer().<name>
getService(name) ==
  /\ name \in ServiceNames
  /\ LET c == getServiceContainer(serviceContainer)
     IN result' = IF c.threw
                    THEN [op |-> "getService", status |-> "threw", name |-> name]
                    ELSE [op |-> "getService", status |-> "ok", name |-> name,
                          value |-> ServiceInstance(c.value, name)]
  /\ UNCHANGED <<containerVars, containerFrame>>

\* A call of getServiceContainer() itself
getContainer ==
  /\ LET c == getServiceContainer(serviceContainer)
     IN result' = IF c.threw
                    THEN [op |-> "getServiceContainer", status |-> "threw"]
                    ELSE [op |-> "getServiceContainer", status |-> "ok",
                          value |-> c.value]
  /\ UNCHANGED <<containerVars, containerFrame>>

NextContainer ==
  \/ initializeServices
  \/ \E n \in 1..MaxInitCalls, resolved \in BOOLEAN : initializeServices_settled(n, resolved)
  \/ \E name \in ServiceNames : getService(name)
  \/ getContainer

SpecContainer == Init /\ [][NextContainer]_vars

\* C27: the container changes only when a call of initializeServices
\* completes successfully, and then holds the instances that call built; a
\* call that fails rethrows and leaves the container as it was; every
\* accessor throws as long as no call has completed successfully (the
\* container is still NULL, as at the start), and otherwise returns the
\* instance of the container, that of the most recent successful call.
C27_ContainerOnlyAfterInit ==
  [][/\ serviceContainer' # serviceContainer =>
          /\ result'.op = "initializeServices" /\ result'.status = "ok"
          /\ serviceContainer' = result'.call
     /\ (result'.op = "initializeServices" /\ result'.status = "ok") =>
          serviceContainer' = result'.call
     /\ (result'.op = "initializeServices" /\ result'.status # "ok") =>
          serviceContainer' = serviceContainer
     /\ result'.op = "getService" =>
          IF serviceContainer = NULL THEN result'.status = "threw"
          ELSE /\ result'.status = "ok"
               /\ result'.value = ServiceInstance(serviceContainer, result'.name)
     /\ result'.op = "getServiceContainer" =>
          IF serviceContainer = NULL THEN result'.status = "threw"
          ELSE result'.status = "ok" /\ result'.value = serviceContainer]_vars

\* A first call has failed, a second one is still waiting, and an accessor
\* has thrown.
C27_Witness ==
  /\ result.op = "getService" /\ result.status = "threw"
  /\ built >= 2
  /\ init_calls # {}
  /\ Cardinality(init_calls) < built

\* ----------------------------------------------------------------- LRUCache
\* Everything but the cache and the outcome.
cacheFrame ==
  <<profiles, follows, posts, post_likes, post_saves, comments,
    ephemeral_content, now, tx, direct_writes, user_roles, comment_likes,
    reports, chatVars, stickerVars, schemaVars, signupVars, feedVars,
    containerVars, debounceVars>>

CacheKeys == 1..NumKeys
CacheValues == {"a", "b"}

\* this.keys.filter(k => k !== key) without the filter.
WithoutKey_kept(seq, key) == seq

\* this.keys.filter(k => k !== key)
WithoutKey(seq, key) == SelectSeq(seq, LAMBDA k : k # key)

\* new LRUCache(c)
LRUCache(c) ==
  /\ capacity = NULL
  /\ c >= 0
  /\ capacity' = c
  /\ result' = [op |-> "new_cache", status |-> "ok"]
  /\ UNCHANGED <<cache, keys, cache_ops, last_used, cacheFrame>>

\* get(key)
LRUCache_get(key) ==
  /\ capacity # NULL
  /\ IF key \in DOMAIN cache
       THEN /\ cache_ops < MaxCacheOps
            /\ keys' = Append(WithoutKey(keys, key), key)
            /\ cache_ops' = cache_ops + 1
            /\ last_used' = [last_used EXCEPT ![key] = cache_ops + 1]
            /\ result' = [op |-> "get", status |-> "hit", key |-> key,
                          value |-> cache[key]]
       ELSE /\ result' = [op |-> "get", status |-> "undefined", key |-> key]
            /\ UNCHANGED <<keys, cache_ops, last_used>>
  /\ UNCHANGED <<capacity, cache, cacheFrame>>

\* set(key, value)
LRUCache_set(key, value) ==
  /\ capacity # NULL
  /\ cache_ops < MaxCacheOps
  /\ cache_ops' = cache_ops + 1
  /\ IF key \in DOMAIN cache
       THEN /\ cache' = [cache EXCEPT ![key] = value]
            /\ keys' = Append(WithoutKey(keys, key), key)
            /\ last_used' = [last_used EXCEPT ![key] = cache_ops + 1]
            /\ result' = [op |-> "set", status |-> "updated", key |-> key,
                          evicted |-> {}]
       ELSE LET full == Cardinality(DOMAIN cache) >= capacity
                \* const lruKey = this.keys.shift(): undefined on an empty list
                shifted == full /\ keys # <<>>
                lruKey == IF shifted THEN {Head(keys)} ELSE {}
                keys1 == IF shifted THEN Tail(keys) ELSE keys
            IN /\ cache' = InsertRow(DeleteRows(cache, lruKey), key, value)
               /\ keys' = Append(keys1, key)
               /\ last_used' = InsertRow(DeleteRows(last_used, lruKey), key,
                                         cache_ops + 1)
               /\ result' = [op |-> "set", status |-> "added", key |-> key,
                             evicted |-> lruKey]
  /\ UNCHANGED <<capacity, cacheFrame>>

\* clear()
LRUCache_clear ==
  /\ capacity # NULL
  /\ cache' = <<>>
  /\ keys' = <<>>
  /\ last_used' = <<>>
  /\ result' = [op |-> "clear", status |-> "ok"]
  /\ UNCHANGED <<capacity, cache_ops, cacheFrame>>

NextCache ==
  \/ \E c \in 0..MaxCapacity : LRUCache(c)
  \/ \E k \in CacheKeys : LRUCache_get(k)
  \/ \E k \in CacheKeys, v \in CacheValues : LRUCache_set(k, v)
  \/ LRUCache_clear

SpecCache == Init /\ [][NextCache]_vars

\* C28: a cache constructed with capacity c >= 0 never stores more than c
\* entries, and the recency list holds exactly the stored keys, each once.
C28_WithinCapacityKeysMatch ==
  capacity # NULL =>
    /\ Cardinality(DOMAIN cache) <= capacity
    /\ Len(keys) = Cardinality(DOMAIN cache)
    /\ {keys[i] : i \in DOMAIN keys} = DOMAIN cache

\* The stored key whose latest get-hit or set is the oldest.
LeastRecentlyUsed(k) ==
  /\ k \in DOMAIN last_used
  /\ \A j \in DOMAIN last_used : last_used[k] <= last_used[j]

\* A step that is a get of a stored key or a set of a stored key.
UsesStoredKey ==
  /\ cache_ops' = cache_ops + 1
  /\ result'.status \in {"hit", "updated"}

\* A hit or an update leaves the stored keys as they are and makes its key
\* the last of the recency list and the latest used; a miss changes nothing.
HitsAndMisses ==
  /\ UsesStoredKey =>
       /\ DOMAIN cache' = DOMAIN cache
       /\ keys' # <<>>
       /\ keys'[Len(keys')] = result'.key
       /\ Len(keys') = Len(keys)
       /\ \A j \in DOMAIN last_used' : last_used'[j] <= last_used'[result'.key]
  /\ (result'.op = "get" /\ result'.status = "undefined") =>
       /\ result'.key \notin DOMAIN cache
       /\ UNCHANGED <<cache, keys>>

\* A step that is a set of a key not stored, on a full cache.
SetOnFull ==
  /\ cache_ops' = cache_ops + 1
  /\ result'.op = "set"
  /\ result'.status = "added"
  /\ Cardinality(DOMAIN cache) >= capacity

EvictsTheOldest ==
  \E e \in DOMAIN cache :
    /\ result'.evicted = {e}
    /\ LeastRecentlyUsed(e)
    /\ DOMAIN cache' = (DOMAIN cache \ {e}) \cup {result'.key}

debounceFrame ==
  <<profiles, follows, posts, post_likes, post_saves, comments,
    ephemeral_content, now, tx, direct_writes, user_roles, comment_likes,
    reports, chatVars, stickerVars, schemaVars, signupVars, feedVars,
    containerVars, cacheVars>>

CallEvents == {i \in DOMAIN events : events[i].kind = "call"}
InvokeEvents == {i \in DOMAIN events : events[i].kind = "invoke"}

\* clearTimeout(id): a no-op for an id that is not pending.
clearTimeout(pending, id) == {t \in pending : t.id # id}

\* The body of executedFunction, called at the current time; the call's
\* arguments are its number, and so is the id of the timer it sets.
executedFunction_body(pending, held) ==
  LET n == Cardinality(CallEvents) + 1
      cleared == IF held # NULL THEN clearTimeout(pending, held) ELSE pending
  IN [timers |-> cleared \cup {[id |-> n, due |-> clock + wait, args |-> n]},
      timeout |-> n,
      call |-> [kind |-> "call", args |-> n, at |-> clock]]

CanCall ==
  /\ wait # NULL
  /\ Cardinality(CallEvents) < MaxCalls
  /\ clock + wait <= MaxClock

\* debounce(func, wait)
debounce(w) ==
  /\ wait = NULL
  /\ wait' = w
  /\ result' = [op |-> "debounce", status |-> "ok"]
  /\ UNCHANGED <<timeout, clock, timers, events, debounceFrame>>

\* executedFunction(...args), called by the page
executedFunction ==
  /\ CanCall
  /\ LET r == executedFunction_body(timers, timeout)
     IN /\ timers' = r.timers
        /\ timeout' = r.timeout
        /\ events' = Append(events, r.call)
        /\ result' = [op |-> "call", status |-> "ok", args |-> r.call.args]
  /\ UNCHANGED <<wait, clock, debounceFrame>>

\* Time passes; a timer that is due runs when the event loop gets to it.
AdvanceClock ==
  /\ wait # NULL
  /\ clock < MaxClock
  /\ clock' = clock + 1
  /\ UNCHANGED <<result, wait, timeout, timers, events, debounceFrame>>

\* The callback of a due timer: func(...args); timeout = null. func may call
\* the wrapper itself.
timeoutCallback(t, func_calls_wrapper) ==
  /\ t \in timers
  /\ clock >= t.due
  /\ func_calls_wrapper => CanCall
  /\ LET invoke == [kind |-> "invoke", args |-> t.args, at |-> clock]
         r == executedFunction_body(timers \ {t}, timeout)
     IN IF func_calls_wrapper
          THEN /\ timers' = r.timers
               /\ events' = events \o <<invoke, r.call>>
          ELSE /\ timers' = timers \ {t}
               /\ events' = Append(events, invoke)
  /\ timeout' = NULL
  /\ result' = [op |-> "invoke", status |-> "ok", args |-> t.args]
  /\ UNCHANGED <<wait, clock, debounceFrame>>

TimerRuns == \E t \in timers, c \in BOOLEAN : timeoutCallback(t, c)

NextDebounce ==
  \/ \E w \in 1..MaxWait : debounce(w)
  \/ executedFunction
  \/ AdvanceClock
  \/ TimerRuns

SpecDebounce ==
  Init /\ [][NextDebounce]_vars /\ WF_vars(AdvanceClock) /\ WF_vars(TimerRuns)

\* The call after call i, if there is one.
LaterCalls(i) == {j \in CallEvents : j > i}
NextCall(i) == CHOOSE j \in LaterCalls(i) : \A k \in LaterCalls(i) : j <= k

\* Call i is the last call of its burst, and a call of a later burst was made.
ClosesBurst(i) ==
  /\ LaterCalls(i) # {}
  /\ events[NextCall(i)].at - events[i].at >= wait

\* Call i was followed by a call of the same burst.
Superseded(i) ==
  /\ LaterCalls(i) # {}
  /\ events[NextCall(i)].at - events[i].at < wait

InvocationsOf(i) == {j \in InvokeEvents : events[j].args = events[i].args}
Pending(i) == \E t \in timers : t.args = events[i].args

\* func is not invoked within wait of the latest call of the wrapper.
NotBeforeWait ==
  \A j \in InvokeEvents : \A i \in CallEvents :
    i < j => events[j].at - events[i].at >= wait

\* A burst leads to one invocation, with the arguments of its last call: a
\* superseded call is never invoked, no call is invoked twice, and the last
\* call of a burst that a later burst followed is invoked or still due.
OncePerBurst ==
  \A i \in CallEvents :
    /\ Cardinality(InvocationsOf(i)) <= 1
    /\ Superseded(i) => InvocationsOf(i) = {}
    /\ ClosesBurst(i) => InvocationsOf(i) # {} \/ Pending(i)

\* C30: func is never invoked while fewer than wait time units have passed
\* since the latest call of the wrapper, and every burst of calls less than
\* wait apart leads to exactly one invocation, made after the last call of
\* the burst with the arguments of that call.
C30_DebounceOncePerBurst == wait # NULL => NotBeforeWait /\ OncePerBurst

\* C30, last part: the latest call of the wrapper is eventually invoked.
DebounceEventuallyInvokes ==
  \A n \in 1..MaxCalls :
    (Cardinality(CallEvents) = n /\ [](Cardinality(CallEvents) = n))
      ~> (\E j \in InvokeEvents : events[j].args = n)
====
